---- MODULE Spec2Model ----
(***************************************************************************)
(* Model of the content-transformation pipeline of obsidian-wordpress:     *)
(*   - the block segmenter of abstract-wp-client.ts                        *)
(*     (convertToWordPressBlocks, splitContentIntoBlocks, createWpBlock,   *)
(*      hasCalloutSyntax, processCalloutContentSimple, formatTableContent) *)
(*   - the ![[...]] embed inline rule of the markdown-it plugin;           *)
(*   - the publish path of abstract-wp-client.ts: tryToPublish with the    *)
(*     temporary Excalidraw images, getAuth, updatePostImages, getImages.  *)
(*                                                                         *)
(* A JavaScript string is a sequence of tokens.  A token is a TLA+ string  *)
(* standing for a run of characters that the regular expressions of the    *)
(* source never split: a complete tag, a delimiter fragment, a blank, a    *)
(* line break, a letter or a word.                                         *)
(***************************************************************************)
EXTENDS Naturals, Sequences, FiniteSets, TLC

(***************************************************************************)
(* Bounds of the model.                                                    *)
(***************************************************************************)
\* number of top-level elements of a generated input document
MaxSegs == 2
\* number of |options of a generated embed
MaxOpts == 2
\* number of Excalidraw embeds of a published note
MaxDrawings == 1
\* number of distinct values of Date.now() after the first
MaxClock == 1
\* number of images of a note handed to updatePostImages
MaxImgs == 2

VARIABLES
    html,        \* argument of convertToWordPressBlocks
    pc,          \* position in convertToWordPressBlocks / splitContentIntoBlocks
    blocks,      \* convertToWordPressBlocks: const blocks : string[]
    lastIndex,   \* convertToWordPressBlocks: let lastIndex
    match,       \* convertToWordPressBlocks: let match (pending regex match)
    htmlLines,   \* splitContentIntoBlocks: const htmlLines
    i,           \* splitContentIntoBlocks: let i
    sblocks,     \* splitContentIntoBlocks: const blocks : string[]
    ret,         \* which call site of splitContentIntoBlocks is active
    output,      \* value returned by convertToWordPressBlocks
    pass,        \* 1: first publish, 2: the output is converted again
    firstOutput, \* output of pass 1
    fragment,    \* argument content of processCalloutContentSimple
    alerts,      \* argument blocks of processCalloutContentSimple
    cpc,         \* position of the callout extractor run
    stateSrc,    \* embed rule: state.src
    statePos,    \* embed rule: state.pos
    stateTokens, \* embed rule: tokens pushed with state.push
    silent,      \* embed rule: argument silent of the last call
    ruleResult,  \* embed rule: value returned by the last call
    imgCalls,    \* arguments of the calls of pluginOptions.doWithImage
    renderIdx,   \* ob_img renderer: argument idx of the last call (0: none)
    rendered,    \* ob_img renderer: string returned by the last call
    vault,       \* temporary image files present in the vault
    tempExcalidrawImages, \* this.tempExcalidrawImages (the array the field holds)
    now,         \* the value Date.now() returned last
    att,         \* per call of tryToPublish: position, locals, content
    needLogin,   \* getAuth: value of this.needLogin()
    profile,     \* getAuth: this.profile.username and this.profile.password
    valid,       \* the credentials validateUser answers with code OK
    auth,        \* getAuth: let auth
    authPc,      \* position in getAuth
    prompted,    \* getAuth: openLoginModal was called
    postContent, \* updatePostImages: postParams.content
    images,      \* updatePostImages: const images = getImages( ... )
    imgIdx,      \* updatePostImages: position of img in images
    imgPc        \* position in updatePostImages

segVars == <<html, pc, blocks, lastIndex, match, htmlLines, i, sblocks, ret,
             output, pass, firstOutput>>
calloutVars == <<fragment, alerts, cpc>>
embedVars == <<stateSrc, statePos, stateTokens, silent, ruleResult, imgCalls,
               renderIdx, rendered>>
\* what the block segmenter never touches
publishVars == <<vault, tempExcalidrawImages, now, att>>
authVars == <<needLogin, profile, valid, auth, authPc, prompted>>
imageVars == <<postContent, images, imgIdx, imgPc>>
clientVars == <<publishVars, authVars, imageVars>>
restVars == <<calloutVars, embedVars, clientVars>>
vars == <<segVars, calloutVars, embedVars, clientVars>>

(***************************************************************************)
(* Tokens.                                                                 *)
(***************************************************************************)
NL == "\n"
SP == " "
\* JavaScript \s and String.prototype.trim on the characters of the model
IsWs(t) == t \in {SP, "  ", NL}

OpenTok == "<!-- wp:"
CloseTok == "<!-- /wp:"
ArrowTok == " -->"

Levels == {"1", "2", "3", "4", "5", "6"}
HOpen(l) == "<h" \o l \o ">"
HClose(l) == "</h" \o l \o ">"

\* text atoms of generated documents
Labels == <<"Alpha", "Beta", "Gamma", "Delta">>
LabelSet == {Labels[k] : k \in 1..Len(Labels)}
SrcNames == LabelSet \cup {"a.png"}
Alts == {"", "pic"}
ImgTag(src, alt) == "<img src=\"" \o src \o "\" alt=\"" \o alt \o "\">"
ImgTagNoAlt(src) == "<img src=\"" \o src \o "\">"
ImgTagNoSrc == "<img alt=\"\">"
\* an img tag up to the opening quote of its alt text; the text follows in
\* tokens of its own and the token "\">" ends the tag
ImgAltOpen(src) == "<img src=\"" \o src \o "\" alt=\""
ImgTags == {ImgTag(s, a) : s \in SrcNames, a \in Alts}
             \cup {ImgTagNoAlt(s) : s \in SrcNames} \cup {ImgTagNoSrc}

\* tags kept by the "other text" rule: code|strong|em|b|i
AllowTags == {"<code>", "</code>", "<strong>", "</strong>", "<em>", "</em>",
              "<b>", "</b>", "<i>", "</i>"}
FigureTableTok == "<figure class=\"wp-block-table is-style-regular\"><table class=\"has-fixed-layout\">"
TableFigureEndTok == "</table></figure>"
HrBodyTok == "<hr class=\"wp-block-separator has-text-color has-alpha-channel-opacity has-background is-style-wide\" style=\"margin-top:var(--wp--preset--spacing--50);margin-bottom:var(--wp--preset--spacing--50);background-color:#ececec;color:#ececec\"/>"
SpacerBodyTok == "<div style=\"height:50px\" aria-hidden=\"true\" class=\"wp-block-spacer\"></div>"
PreCodeTok == "<pre class=\"wp-block-code\"><code>"
CodePreEndTok == "</code></pre>"
QuoteOpenTok == "<blockquote class=\"wp-block-quote\">"
FigureImageTok == "<figure class=\"wp-block-image aligncenter size-large\">"
\* every token that is one or more complete tags  <...>
Tags == {HOpen(l) : l \in Levels} \cup {HClose(l) : l \in Levels} \cup ImgTags
          \cup AllowTags
          \cup {"<hr>", "<hr />", "<table>", "</table>", "<tr>", "</tr>", "<td>", "</td>",
                "<thead>", "</thead>", "<pre>", "</pre>", "<ul>", "</ul>", "<ol>", "</ol>",
                "<li>", "</li>", "<blockquote>", "</blockquote>", "<p>", "</p>",
                "<br>", "<br />", "<div>", "</div>", "</figure>",
                FigureTableTok, TableFigureEndTok, HrBodyTok, SpacerBodyTok,
                PreCodeTok, CodePreEndTok, QuoteOpenTok, FigureImageTok}

(***************************************************************************)
(* String helpers.                                                         *)
(***************************************************************************)
Min(S) == CHOOSE x \in S : \A y \in S : x <= y

RECURSIVE TrimStart(_)
TrimStart(s) == IF s # <<>> /\ IsWs(Head(s)) THEN TrimStart(Tail(s)) ELSE s

RECURSIVE TrimEnd(_)
TrimEnd(s) ==
    IF s # <<>> /\ IsWs(s[Len(s)]) THEN TrimEnd(SubSeq(s, 1, Len(s) - 1)) ELSE s

\* String.prototype.trim
Trim(s) == TrimEnd(TrimStart(s))

\* String.prototype.includes for one token
Includes(s, t) == \E k \in 1..Len(s) : s[k] = t

\* String.prototype.split( "\n" )
RECURSIVE Split(_)
Split(s) ==
    IF Includes(s, NL)
    THEN LET k == Min({m \in 1..Len(s) : s[m] = NL})
         IN  <<SubSeq(s, 1, k - 1)>> \o Split(SubSeq(s, k + 1, Len(s)))
    ELSE <<s>>

\* Array.prototype.join with a separator string
RECURSIVE Join(_, _)
Join(ss, sep) ==
    IF ss = <<>> THEN <<>>
    ELSE IF Len(ss) = 1 THEN ss[1]
    ELSE ss[1] \o sep \o Join(Tail(ss), sep)

\* s.replace( /re/g, "" ) for a pattern that matches exactly the tokens of D
RECURSIVE RemoveAll(_, _)
RemoveAll(s, D) ==
    IF s = <<>> THEN <<>>
    ELSE IF Head(s) \in D THEN RemoveAll(Tail(s), D)
    ELSE <<Head(s)>> \o RemoveAll(Tail(s), D)

\* s.replace( /re/, r ) (no g flag) for a pattern that matches the token t
ReplaceFirst(s, t, r) ==
    IF Includes(s, t)
    THEN LET k == Min({m \in 1..Len(s) : s[m] = t})
         IN  SubSeq(s, 1, k - 1) \o r \o SubSeq(s, k + 1, Len(s))
    ELSE s

(***************************************************************************)
(* createWpBlock / createParagraphBlock                                    *)
(***************************************************************************)
\* a serializer that puts no line break after the opening delimiter
createWpBlockOneLine(blockType, content, attributes) ==
    <<OpenTok, blockType>> \o attributes \o <<ArrowTok>>
        \o content \o <<NL, CloseTok, blockType, ArrowTok>>

createWpBlock(blockType, content, attributes) ==
    <<OpenTok, blockType>> \o attributes \o <<ArrowTok, NL>>
        \o content \o <<NL, CloseTok, blockType, ArrowTok>>

createParagraphBlock(text) ==
    <<OpenTok, "paragraph", ArrowTok, NL, "<p>">> \o text
        \o <<"</p>", NL, CloseTok, "paragraph", ArrowTok>>

(***************************************************************************)
(* Callout extractor: hasCalloutSyntax, processCalloutContentSimple.       *)
(* A marker is the token "[!", the letters of the kind, the token "]".     *)
(***************************************************************************)
LowerAlpha == <<"a", "b", "c", "d", "e", "f", "g", "h", "i", "j", "k", "l", "m", "n", "o", "p", "q", "r", "s", "t", "u", "v", "w", "x", "y", "z">>
UpperAlpha == <<"A", "B", "C", "D", "E", "F", "G", "H", "I", "J", "K", "L", "M", "N", "O", "P", "Q", "R", "S", "T", "U", "V", "W", "X", "Y", "Z">>

\* String.prototype.toLowerCase / toUpperCase on one character
ToLowerChar(c) ==
    IF \E k \in 1..Len(UpperAlpha) : UpperAlpha[k] = c
    THEN LowerAlpha[CHOOSE k \in 1..Len(UpperAlpha) : UpperAlpha[k] = c]
    ELSE c
ToUpperChar(c) ==
    IF \E k \in 1..Len(LowerAlpha) : LowerAlpha[k] = c
    THEN UpperAlpha[CHOOSE k \in 1..Len(LowerAlpha) : LowerAlpha[k] = c]
    ELSE c
ToLowerCase(s) == [k \in 1..Len(s) |-> ToLowerChar(s[k])]
ToUpperCase(s) == [k \in 1..Len(s) |-> ToUpperChar(s[k])]

\* the alternation of the callout regular expression
Kinds ==
    {<<"i", "n", "f", "o">>,
     <<"w", "a", "r", "n", "i", "n", "g">>,
     <<"n", "o", "t", "e">>,
     <<"t", "i", "p">>,
     <<"c", "a", "u", "t", "i", "o", "n">>,
     <<"d", "a", "n", "g", "e", "r">>,
     <<"s", "u", "c", "c", "e", "s", "s">>,
     <<"f", "a", "i", "l", "u", "r", "e">>,
     <<"b", "u", "g">>,
     <<"e", "x", "a", "m", "p", "l", "e">>,
     <<"q", "u", "o", "t", "e">>,
     <<"c", "i", "t", "e">>,
     <<"a", "b", "s", "t", "r", "a", "c", "t">>,
     <<"s", "u", "m", "m", "a", "r", "y">>,
     <<"t", "l", "d", "r">>,
     <<"i", "n", "f", "o", "+">>,
     <<"q", "u", "e", "s", "t", "i", "o", "n">>,
     <<"h", "e", "l", "p">>,
     <<"f", "a", "q">>,
     <<"e", "r", "r", "o", "r">>}

MarkerOpen == "[!"
MarkerClose == "]"

\* index of the "]" that ends a marker starting at k; 0 when no marker starts at k
KindEnd(s, k) ==
    IF s[k] = MarkerOpen /\ \E e \in (k + 1)..Len(s) : s[e] = MarkerClose
    THEN LET e == Min({m \in (k + 1)..Len(s) : s[m] = MarkerClose})
         IN  IF ToLowerCase(SubSeq(s, k + 1, e - 1)) \in Kinds THEN e ELSE 0
    ELSE 0

\* the last marker instead of the first
MarkerStartLast(s) ==
    LET M == {k \in 1..Len(s) : KindEnd(s, k) # 0}
    IN  IF M = {} THEN 0 ELSE CHOOSE k \in M : \A m \in M : m <= k

\* index of the first marker of s; 0 when there is none
MarkerStart(s) ==
    LET M == {k \in 1..Len(s) : KindEnd(s, k) # 0}
    IN  IF M = {} THEN 0 ELSE Min(M)

hasCalloutSyntax(content) == MarkerStart(content) # 0

\* content.match( /\[!(kind)\]\s*([^\n]*)/i ): group 1, group 2 and the end of
\* the whole match
CalloutMatch(s) ==
    LET k == MarkerStart(s)
        e == KindEnd(s, k)
        N == {m \in (e + 1)..Len(s) : ~IsWs(s[m])}
        t == IF N = {} THEN Len(s) + 1 ELSE Min(N)
        L == {m \in t..Len(s) : s[m] = NL}
        c == IF L = {} THEN Len(s) ELSE Min(L) - 1
    IN  [index |-> k,
         kind |-> SubSeq(s, k + 1, e - 1),
         title |-> SubSeq(s, t, c),
         end |-> IF t > c THEN t - 1 ELSE c]

\* calloutType.charAt( 0 ).toUpperCase() + calloutType.slice( 1 )
Capitalize(w) == IF w = <<>> THEN <<>> ELSE <<ToUpperChar(w[1])>> \o Tail(w)

\* a mapping that knows the kind warning only
AlertTypeWarningOnly(calloutType) ==
    IF calloutType = <<"w", "a", "r", "n", "i", "n", "g">>
    THEN "warning"
    ELSE IF calloutType = <<"s", "u", "c", "c", "e", "s", "s">>
    THEN "success"
    ELSE IF calloutType \in {<<"e", "r", "r", "o", "r">>,
                             <<"f", "a", "i", "l", "u", "r", "e">>}
    THEN "error"
    ELSE "info"

\* the alert category of a lower-cased kind
AlertTypeOf(calloutType) ==
    IF calloutType \in {<<"w", "a", "r", "n", "i", "n", "g">>,
                        <<"c", "a", "u", "t", "i", "o", "n">>,
                        <<"d", "a", "n", "g", "e", "r">>}
    THEN "warning"
    ELSE IF calloutType = <<"s", "u", "c", "c", "e", "s", "s">>
    THEN "success"
    ELSE IF calloutType \in {<<"e", "r", "r", "o", "r">>,
                             <<"f", "a", "i", "l", "u", "r", "e">>}
    THEN "error"
    ELSE "info"

CalloutTitle(m) ==
    IF m.title # <<>> THEN Trim(m.title) ELSE Capitalize(ToLowerCase(m.kind))

CalloutBody(s, m) ==
    Trim(RemoveAll(SubSeq(s, 1, m.index - 1) \o SubSeq(s, m.end + 1, Len(s)),
                   {"<p>", "</p>"}))

AlertTypeKey == " {\"alertType\":\""
AlertTitleKey == "\",\"alertTitle\":\""
AlertUniqueIdKey == "\",\"maximumWidthUnit\":\"%\",\"maximumWidth\":\"100\",\"baseFontSize\":13,\"variant\":\"left-accent\",\"uniqueId\":\"alerts-dlx-"
AlertClassKey == "\",\"className\":\"is-style-"
AlertAttrEnd == "\"}"

\* Math.random().toString( 36 ).substring( 2, 10 )
UniqueIds == {"k3x9q0zt", "0a1b2c3d"}

AlertContent(calloutContent) ==
    <<OpenTok, "paragraph", " {\"placeholder\":\"\"}", ArrowTok, NL, "  ", "\"">>
        \o calloutContent \o <<"\"", NL, "  ", CloseTok, "paragraph", ArrowTok>>

AlertAttributes(alertType, calloutTitle, uid) ==
    <<AlertTypeKey, alertType, AlertTitleKey>> \o calloutTitle
        \o <<AlertUniqueIdKey, uid, AlertClassKey, alertType, AlertAttrEnd>>

\* the value of blocks after processCalloutContentSimple( content, blocks )
processCalloutContentSimple(content, blks, uid) ==
    IF MarkerStart(content) # 0
    THEN LET m == CalloutMatch(content)
             calloutType == ToLowerCase(m.kind)
             alertType == AlertTypeOf(calloutType)
         IN  Append(blks,
                    createWpBlock("mediaron/alerts-dlx-chakra",
                                  AlertContent(CalloutBody(content, m)),
                                  AlertAttributes(alertType, CalloutTitle(m), uid)))
    ELSE blks

(***************************************************************************)
(* splitContentIntoBlocks: the per-line patterns.                          *)
(***************************************************************************)
\* line.includes( closingTag ): D holds every token that contains the tag
IncludesAny(s, D) == \E k \in 1..Len(s) : s[k] \in D

\* /^<h([1-6])>(.*?)<\/h\1>$/
IsHeadingLine(line) ==
    /\ Len(line) >= 2
    /\ \E l \in Levels : line[1] = HOpen(l) /\ line[Len(line)] = HClose(l)
\* /^<hr\s*\/?>$/
IsHrLine(line) == line \in {<<"<hr>">>, <<"<hr />">>}
\* /^<table>/, /^<pre>/, /^<ul>/, /^<ol>/, /^<blockquote>/
StartsWith(line, t) == line # <<>> /\ line[1] = t
\* /^<p>(.*?)<\/p>$/
IsParagraphLine(line) ==
    Len(line) >= 2 /\ line[1] = "<p>" /\ line[Len(line)] = "</p>"
\* /^<br\s*\/?>$/
IsBrLine(line) == line \in {<<"<br>">>, <<"<br />">>}

\* the first pattern of the loop body that matches the line (first match wins)
RuleOf(line) ==
    IF IsHeadingLine(line) THEN 1
    ELSE IF IsHrLine(line) THEN 2
    ELSE IF StartsWith(line, "<table>") THEN 3
    ELSE IF StartsWith(line, "<pre>") THEN 4
    ELSE IF StartsWith(line, "<ul>") THEN 5
    ELSE IF StartsWith(line, "<ol>") THEN 6
    ELSE IF StartsWith(line, "<blockquote>") THEN 7
    ELSE IF IsParagraphLine(line) THEN 8
    ELSE IF IsBrLine(line) THEN 9
    ELSE 10

ScanEndOneLine(lines, from, close) ==
    LET C == {j \in from..(Len(lines) - 1) : IncludesAny(lines[j + 1], close)}
    IN  IF C = {} THEN from ELSE Min(C)

\* value of j when the inner while loop ends: the first line from `from` that
\* includes the closing tag, or htmlLines.length (0-based, as in the source)
ScanEnd(lines, from, close) ==
    LET C == {j \in from..(Len(lines) - 1) : IncludesAny(lines[j + 1], close)}
    IN  IF C = {} THEN Len(lines) ELSE Min(C)

\* tableContent / listContent / quoteContent accumulated by the inner loop
RECURSIVE Collect(_, _, _, _)
Collect(lines, from, j, close) ==
    IF j >= Len(lines) THEN <<>>
    ELSE IF IncludesAny(lines[j + 1], close) THEN lines[j + 1]
    ELSE lines[j + 1] \o (IF j > from THEN <<NL>> ELSE <<>>)
             \o Collect(lines, from, j + 1, close)

\* codeLines collected by the inner loop of the <pre> rule, joined
CodeLines(lines, from) == SubSeq(lines, from + 1, ScanEnd(lines, from, {"</pre>", CodePreEndTok}))
CodeContent(lines, from) ==
    RemoveAll(Join(CodeLines(lines, from), <<NL>>), {"<pre>", "</pre>", "<code>", "</code>", PreCodeTok, CodePreEndTok})

formatTableContent(tableContent) ==
    ReplaceFirst(ReplaceFirst(tableContent, "<table>", <<FigureTableTok>>),
                 "</table>", <<TableFigureEndTok>>)

LevelAttrAlways(level) == <<" {\"level\":" \o level \o "}">>
LevelAttr(level) == IF level # "2" THEN <<" {\"level\":" \o level \o "}">> ELSE <<>>

HeadingBlock(line) ==
    LET level == CHOOSE l \in Levels : line[1] = HOpen(l)
        content == SubSeq(line, 2, Len(line) - 1)
    IN  createWpBlock("heading", <<HOpen(level)>> \o content \o <<HClose(level)>>,
                      LevelAttr(level))

\* /^\s*<img\s+([^>]*?)>\s*$/ on the interior of a paragraph
ImgMatch(content) ==
    LET t == Trim(content)
    IN  \/ Len(t) = 1 /\ t[1] \in ImgTags
        \/ /\ Len(t) >= 2
           /\ t[1] \in {ImgAltOpen(s) : s \in SrcNames}
           /\ t[Len(t)] = "\">"
           \* [^>]*? : no ">" before the one that ends the tag
           /\ \A k \in 2..(Len(t) - 1) :
                  t[k] \notin Tags \cup {ArrowTok, "\">", "\"/>"}
\* /src="([^"]*)"/ and /alt="([^"]*)"/ on the attributes of the img tag
HasSrc(tag) ==
    \E s \in SrcNames :
        tag \in {ImgTag(s, a) : a \in Alts} \cup {ImgTagNoAlt(s), ImgAltOpen(s)}
ImgSrc(tag) ==
    CHOOSE s \in SrcNames :
        tag \in {ImgTag(s, a) : a \in Alts} \cup {ImgTagNoAlt(s), ImgAltOpen(s)}
ImgAlt(tag) ==
    IF \E s \in SrcNames, a \in Alts : tag = ImgTag(s, a)
    THEN CHOOSE a \in Alts : \E s \in SrcNames : tag = ImgTag(s, a)
    ELSE ""

\* Math.floor( Math.random() * 1000 ) + 600
TempIds == {"600", "1599"}

\* altMatch[ 1 ] of an img tag given as the tokens t
ImgAltTokens(t) ==
    IF Len(t) >= 2 THEN SubSeq(t, 2, Len(t) - 1) ELSE <<ImgAlt(t[1])>>

ImageBlock(t, tempId) ==
    createWpBlock("image",
        <<FigureImageTok, "<img src=\"", ImgSrc(t[1]), "\" alt=\"">>
            \o ImgAltTokens(t)
            \o <<"\" class=\"wp-image-", tempId, "\"/>", "</figure>">>,
        <<" {\"id\":", tempId,
          ",\"sizeSlug\":\"large\",\"linkDestination\":\"none\",\"align\":\"center\"}">>)

\* line.replace( /<(?!\/?(code|strong|em|b|i)\b)[^>]*>/g, "" )
RECURSIVE StripTags(_)
StripTags(s) ==
    IF s = <<>> THEN <<>>
    ELSE IF Head(s) \in Tags \ AllowTags THEN StripTags(Tail(s))
    \* a token holding a "<" whose ">" is in a later token
    ELSE IF /\ Head(s) \in {OpenTok, CloseTok, "<img src=\""}
                            \cup {ImgAltOpen(n) : n \in SrcNames}
            /\ \E k \in 2..Len(s) : s[k] \in Tags \cup {ArrowTok, "\"/>", "\">"}
    THEN LET k == Min({m \in 2..Len(s) :
                          s[m] \in Tags \cup {ArrowTok, "\"/>", "\">"}})
         IN  StripTags(SubSeq(s, k + 1, Len(s)))
    ELSE <<Head(s)>> \o StripTags(Tail(s))

(***************************************************************************)
(* convertToWordPressBlocks: blockRegex.exec                               *)
(*   /<!-- wp:.*?-->([\s\S]*?)<!-- \/wp:.*?-->/g                           *)
(***************************************************************************)
SameLine(s, a, b) == \A m \in a..b : s[m] # NL

\* end of ".*?-->" begun after token k: the first "-->" on the same line (0: none)
ArrowAfter(s, k) ==
    LET A == {e \in (k + 1)..Len(s) : s[e] = ArrowTok /\ SameLine(s, k + 1, e - 1)}
    IN  IF A = {} THEN 0 ELSE Min(A)

\* index of the last token of the match that starts at token k (0: no match at k)
MatchEnd(s, k) ==
    IF s[k] = OpenTok /\ ArrowAfter(s, k) # 0
    THEN LET C == {c \in (ArrowAfter(s, k) + 1)..Len(s) :
                       s[c] = CloseTok /\ ArrowAfter(s, c) # 0}
         IN  IF C = {} THEN 0 ELSE ArrowAfter(s, Min(C))
    ELSE 0

NoMatch == [index |-> 0, end |-> 0]

\* blockRegex.exec( html ) with blockRegex.lastIndex = from; index as in
\* JavaScript (tokens before the match), end = index + match[ 0 ].length
BlockExec(s, from) ==
    LET S == {k \in (from + 1)..Len(s) : MatchEnd(s, k) # 0}
    IN  IF S = {} THEN NoMatch ELSE [index |-> Min(S) - 1, end |-> MatchEnd(s, Min(S))]

MatchText(s, m) == SubSeq(s, m.index + 1, m.end)


(***************************************************************************)
(* Input documents: rendered HTML of a note, one element per segment,      *)
(* segment k carrying the text Labels[k].                                  *)
(***************************************************************************)
Marker(w) == <<MarkerOpen>> \o w \o <<MarkerClose>>

E2EOneLine == <<"<h2>", "Title", "</h2>", "<p>", "Hello", "</p>",
                "<p>", ImgTag("a.png", ""), "</p>">>
E2ELines == <<"<h2>", "Title", "</h2>", NL, "<p>", "Hello", "</p>", NL,
              "<p>", ImgTag("a.png", ""), "</p>">>
ParagraphTwoLines == <<"<p>">> \o Marker(<<"w", "a", "r", "n", "i", "n", "g">>) \o <<SP, "Careful", NL, "Do", SP, "X", "</p>">>

Shape(n, x) ==
    CASE n = 1 -> <<"<h2>", x, "</h2>">>
      [] n = 2 -> <<"<h3>", x, "</h3>">>
      [] n = 3 -> <<"<hr>">>
      [] n = 4 -> <<"<table>", NL, "<tr>", "<td>", x, "</td>", "</tr>", NL, "</table>">>
      [] n = 5 -> <<"<table>", NL, "<tr>", "<td>", x, "</td>", "</tr>">>
      [] n = 6 -> <<"<pre>", "<code>", x, NL, "</code>", "</pre>">>
      [] n = 7 -> <<"<pre>", "<code>", x, "</code>", "</pre>">>
      [] n = 8 -> <<"<pre>", "<code>", x, NL, "more">>
      [] n = 9 -> <<"<pre>", "<code>", "code", NL, x, "</code>", "</pre>">>
      [] n = 10 -> <<"<ul>", NL, "<li>", x, "</li>", NL, "</ul>">>
      [] n = 11 -> <<"<ul>", NL, "<li>", x, "</li>">>
      [] n = 12 -> <<"<ol>", NL, "<li>", x, "</li>", NL, "</ol>">>
      [] n = 13 -> <<"<ol>", NL, "<li>", x, "</li>">>
      [] n = 14 -> <<"<blockquote>", NL, "<p>", x, "</p>", NL, "</blockquote>">>
      [] n = 15 -> <<"<blockquote>", NL, "<p>", x, "</p>">>
      [] n = 16 -> <<"<blockquote>", NL, "<p>">> \o Marker(<<"w", "a", "r", "n", "i", "n", "g">>)
                      \o <<SP, x, NL, "Do", SP, "it", "</p>", NL, "</blockquote>">>
      [] n = 17 -> <<"<blockquote>", NL, "<p>">> \o Marker(<<"s", "u", "c", "c", "e", "s", "s">>)
                      \o <<NL, x, "</p>", NL, "</blockquote>">>
      [] n = 18 -> <<"<p>", x, "</p>">>
      [] n = 19 -> <<"<p>", ImgTag(x, "pic"), "</p>">>
      [] n = 20 -> <<"<p>", ImgTagNoSrc, "</p>">>
      [] n = 21 -> <<"<p>">> \o Marker(<<"W", "a", "R", "n", "i", "n", "g">>) \o <<SP, x, "</p>">>
      [] n = 22 -> <<"<p>">> \o Marker(<<"s", "u", "c", "c", "e", "s", "s">>) \o <<"</p>">>
      [] n = 23 -> <<"<p>", MarkerOpen, "f", "o", "o", MarkerClose, SP, x, "</p>">>
      [] n = 24 -> <<"<br>">>
      [] n = 25 -> <<x>>
      [] n = 26 -> <<"<div>", x, "<strong>", "bold", "</strong>", "</div>">>
      [] n = 27 -> createWpBlock("quote", <<QuoteOpenTok, x, "</blockquote>">>, <<>>)
      [] n = 28 -> createWpBlock("mediaron/alerts-dlx-chakra", AlertContent(<<x>>),
                                 AlertAttributes("info", <<"T">>, "k3x9q0zt"))
      [] n = 29 -> E2EOneLine
      [] n = 30 -> E2ELines
      [] n = 31 -> ParagraphTwoLines
      [] n = 32 -> <<>>
      [] n = 33 -> <<OpenTok, "quote", ArrowTok, NL, x>>
      [] n = 34 -> <<"<ul>", NL, "<li>", "Item", NL, "<ul>", NL,
                     "<li>", "Sub", "</li>", NL, "</ul>", NL, "</li>", NL,
                     "<li>", x, "</li>", NL, "</ul>">>
      [] n = 35 -> <<"<blockquote>", NL, "<p>", x, "</p>", NL,
                     "<blockquote>", NL, "<p>", "Sub", "</p>", NL,
                     "</blockquote>", NL, "</blockquote>">>
      [] n = 36 -> <<"<p>", ImgAltOpen("a.png")>>
                      \o Marker(<<"w", "a", "r", "n", "i", "n", "g">>)
                      \o <<SP, x, "\">", "</p>">>
      [] n = 37 -> <<"<p>", "See", SP, ImgAltOpen("a.png")>>
                      \o Marker(<<"w", "a", "r", "n", "i", "n", "g">>)
                      \o <<SP, x, "\">", "</p>">>


\* the everyday elements; a document holds any number of them and at most one
\* of the other shapes
CoreShapeIds == {1, 4, 5, 10, 14, 18, 21, 25, 27, 28}
AtMostOneRare(f) == Cardinality({k \in 1..Len(f) : f[k] \notin CoreShapeIds}) <= 1

DocOf(f) == Join([k \in 1..Len(f) |-> Shape(f[k], Labels[k])], <<NL>>)
Docs == {DocOf(f) : f \in {g \in UNION {[1..n -> (1..37)] : n \in 0..MaxSegs} :
                               AtMostOneRare(g)}}

(***************************************************************************)
(* State machine of convertToWordPressBlocks and splitContentIntoBlocks.   *)
(***************************************************************************)
CalloutIdle == fragment = <<>> /\ alerts = <<>> /\ cpc = "idle"
PublishIdle ==
    /\ vault = {} /\ tempExcalidrawImages = <<>> /\ now = 0 /\ att = <<>>
AuthIdle ==
    /\ needLogin = TRUE /\ profile = <<>> /\ valid = {} /\ auth = <<>>
    /\ authPc = "idle" /\ prompted = FALSE
ImagesIdle ==
    /\ postContent = <<>> /\ images = <<>> /\ imgIdx = 0 /\ imgPc = "idle"
ClientIdle == PublishIdle /\ AuthIdle /\ ImagesIdle
EmbedIdle ==
    /\ stateSrc = <<>> /\ statePos = 0 /\ stateTokens = <<>> /\ silent = FALSE
    /\ ruleResult = "none" /\ imgCalls = <<>>
    /\ renderIdx = 0 /\ rendered = <<>>

Init ==
    /\ html \in Docs
    /\ pc = "start"
    /\ blocks = <<>>
    /\ lastIndex = 0
    /\ match = NoMatch
    /\ htmlLines = <<>>
    /\ i = 0
    /\ sblocks = <<>>
    /\ ret = "none"
    /\ output = <<>>
    /\ pass = 1
    /\ firstOutput = <<>>
    /\ CalloutIdle
    /\ EmbedIdle
    /\ ClientIdle

\* let hasBlocks = blockRegex.test( html )
hasBlocks == BlockExec(html, 0) # NoMatch

\* a call of splitContentIntoBlocks( region ) from call site r
CallSplit(region, r) ==
    /\ pc' = "split"
    /\ htmlLines' = Split(region)
    /\ i' = 0
    /\ sblocks' = <<>>
    /\ ret' = r

\* if ( hasBlocks ): enter the exec loop
StartWithBlocks ==
    /\ pc = "start"
    /\ hasBlocks
    /\ pc' = "exec"
    /\ lastIndex' = 0
    /\ UNCHANGED <<html, blocks, match, htmlLines, i, sblocks, ret, output, pass,
                   firstOutput, restVars>>

\* else: the whole input is one raw region
StartWithoutBlocks ==
    /\ pc = "start"
    /\ ~hasBlocks
    /\ CallSplit(html, "whole")
    /\ UNCHANGED <<html, blocks, lastIndex, match, output, pass, firstOutput,
                   restVars>>

\* a match preceded by a non-empty raw region: the region is segmented first
ExecRaw ==
    /\ pc = "exec"
    /\ LET m == BlockExec(html, lastIndex)
       IN  /\ m # NoMatch
           /\ m.index > lastIndex
           /\ Trim(SubSeq(html, lastIndex + 1, m.index)) # <<>>
           /\ match' = m
           /\ CallSplit(Trim(SubSeq(html, lastIndex + 1, m.index)), "between")
    /\ UNCHANGED <<html, blocks, lastIndex, output, pass, firstOutput, restVars>>

\* a match with nothing (or only blanks) before it: the block is kept
ExecAdjacent ==
    /\ pc = "exec"
    /\ LET m == BlockExec(html, lastIndex)
       IN  /\ m # NoMatch
           /\ ~(m.index > lastIndex /\ Trim(SubSeq(html, lastIndex + 1, m.index)) # <<>>)
           /\ blocks' = Append(blocks, MatchText(html, m))
           /\ lastIndex' = m.end
    /\ UNCHANGED <<html, pc, match, htmlLines, i, sblocks, ret, output, pass,
                   firstOutput, restVars>>

\* no further match, text remains after the last block
ExecTail ==
    /\ pc = "exec"
    /\ BlockExec(html, lastIndex) = NoMatch
    /\ lastIndex < Len(html)
    /\ Trim(SubSeq(html, lastIndex + 1, Len(html))) # <<>>
    /\ CallSplit(Trim(SubSeq(html, lastIndex + 1, Len(html))), "tail")
    /\ UNCHANGED <<html, blocks, lastIndex, match, output, pass, firstOutput,
                   restVars>>

\* no further match and nothing remains: return blocks.join( "\n\n" )
ExecDone ==
    /\ pc = "exec"
    /\ BlockExec(html, lastIndex) = NoMatch
    /\ ~(lastIndex < Len(html) /\ Trim(SubSeq(html, lastIndex + 1, Len(html))) # <<>>)
    /\ output' = Join(blocks, <<NL, NL>>)
    /\ pc' = "done"
    /\ UNCHANGED <<html, blocks, lastIndex, match, htmlLines, i, sblocks, ret, pass,
                   firstOutput, restVars>>

PushBetweenPreservedFirst(blks, intermediateBlocks, m) ==
    Append(blks, m) \o intermediateBlocks

\* blocks.push( ...intermediateBlocks ); blocks.push( match[ 0 ] )
PushBetween(blks, intermediateBlocks, m) == Append(blks \o intermediateBlocks, m)

\* splitContentIntoBlocks returns to the region before a match:
\* blocks.push( ...intermediateBlocks ); blocks.push( match[ 0 ] ); lastIndex = ...
ReturnBetween ==
    /\ pc = "split"
    /\ i >= Len(htmlLines)
    /\ ret = "between"
    /\ blocks' = PushBetween(blocks, sblocks, MatchText(html, match))
    /\ lastIndex' = match.end
    /\ pc' = "exec"
    /\ UNCHANGED <<html, match, htmlLines, i, sblocks, ret, output, pass, firstOutput,
                   restVars>>

\* splitContentIntoBlocks returns at the tail or for the whole input:
\* blocks.push( ...blocks ); return blocks.join( "\n\n" )
ReturnLast ==
    /\ pc = "split"
    /\ i >= Len(htmlLines)
    /\ ret \in {"tail", "whole"}
    /\ blocks' = blocks \o sblocks
    /\ output' = Join(blocks \o sblocks, <<NL, NL>>)
    /\ pc' = "done"
    /\ UNCHANGED <<html, lastIndex, match, htmlLines, i, sblocks, ret, pass,
                   firstOutput, restVars>>

\* the published markup is converted again
Republish ==
    /\ pc = "done"
    /\ pass = 1
    /\ html' = output
    /\ firstOutput' = output
    /\ pass' = 2
    /\ pc' = "start"
    /\ blocks' = <<>>
    /\ lastIndex' = 0
    /\ match' = NoMatch
    /\ htmlLines' = <<>>
    /\ i' = 0
    /\ sblocks' = <<>>
    /\ ret' = "none"
    /\ output' = <<>>
    /\ UNCHANGED restVars

(***************************************************************************)
(* splitContentIntoBlocks: one action per branch of the loop body.         *)
(***************************************************************************)
Line == htmlLines[i + 1]
InLoop(n) == pc = "split" /\ i < Len(htmlLines) /\ RuleOf(Line) = n
loopFrame == <<html, pc, blocks, lastIndex, match, htmlLines, ret, output, pass,
               firstOutput, restVars>>

TableBlock(lines, from) ==
    createWpBlock("table", formatTableContent(Collect(lines, from, from, {"</table>", TableFigureEndTok})),
                  <<" {\"hasFixedLayout\":true,\"className\":\"is-style-regular\"}">>)
CodeBlock(lines, from) ==
    createWpBlock("code", <<PreCodeTok>> \o CodeContent(lines, from) \o <<CodePreEndTok>>,
                  <<>>)
UlBlock(lines, from) == createWpBlock("list", Collect(lines, from, from, {"</ul>"}), <<>>)
OlBlock(lines, from) ==
    createWpBlock("list", Collect(lines, from, from, {"</ol>"}), <<" {\"ordered\":true}">>)
\* quoteContent.replace( /<\/?blockquote>/g, "" ).trim()
QuoteInner(lines, from) ==
    Trim(RemoveAll(Collect(lines, from, from, {"</blockquote>"}), {"<blockquote>", "</blockquote>"}))
QuoteBlock(innerContent) ==
    createWpBlock("quote", <<QuoteOpenTok>> \o innerContent \o <<"</blockquote>">>, <<>>)
ParagraphBlock(content) == createWpBlock("paragraph", <<"<p>">> \o content \o <<"</p>">>, <<>>)
\* the interior of a single-line paragraph
ParagraphContent(line) == SubSeq(line, 2, Len(line) - 1)
\* an image paragraph only when its text holds no callout marker
IsImageParagraphUnlessMarker(content) ==
    ImgMatch(content) /\ HasSrc(Trim(content)[1]) /\ ~hasCalloutSyntax(content)
\* the paragraph holds only an image that carries a src
IsImageParagraph(content) == ImgMatch(content) /\ HasSrc(Trim(content)[1])
\* line.replace( ... ).trim() of the fallback rule
TextContent(line) == Trim(StripTags(line))

RuleHeading ==
    /\ InLoop(1)
    /\ sblocks' = Append(sblocks, HeadingBlock(Line))
    /\ i' = i + 1
    /\ UNCHANGED loopFrame

RuleHr ==
    /\ InLoop(2)
    /\ sblocks' = Append(sblocks, createWpBlock("separator", <<HrBodyTok>>, <<" {\"className\":\"is-style-wide\",\"style\":{\"spacing\":{\"margin\":{\"top\":\"var:preset|spacing|50\",\"bottom\":\"var:preset|spacing|50\"}},\"color\":{\"background\":\"#ececec\"}}}">>))
    /\ i' = i + 1
    /\ UNCHANGED loopFrame

RuleTable ==
    /\ InLoop(3)
    /\ sblocks' = Append(sblocks, TableBlock(htmlLines, i))
    /\ i' = ScanEnd(htmlLines, i, {"</table>", TableFigureEndTok}) + 1
    /\ UNCHANGED loopFrame

RulePre ==
    /\ InLoop(4)
    /\ sblocks' = Append(sblocks, CodeBlock(htmlLines, i))
    /\ i' = ScanEnd(htmlLines, i, {"</pre>", CodePreEndTok}) + 1
    /\ UNCHANGED loopFrame

RuleUl ==
    /\ InLoop(5)
    /\ sblocks' = Append(sblocks, UlBlock(htmlLines, i))
    /\ i' = ScanEnd(htmlLines, i, {"</ul>"}) + 1
    /\ UNCHANGED loopFrame

RuleOl ==
    /\ InLoop(6)
    /\ sblocks' = Append(sblocks, OlBlock(htmlLines, i))
    /\ i' = ScanEnd(htmlLines, i, {"</ol>"}) + 1
    /\ UNCHANGED loopFrame

RuleBlockquote ==
    /\ InLoop(7)
    /\ LET innerContent == QuoteInner(htmlLines, i)
       IN  IF hasCalloutSyntax(innerContent)
           THEN \E uid \in UniqueIds :
                    sblocks' = processCalloutContentSimple(innerContent, sblocks, uid)
           ELSE sblocks' = Append(sblocks, QuoteBlock(innerContent))
    /\ i' = ScanEnd(htmlLines, i, {"</blockquote>"}) + 1
    /\ UNCHANGED loopFrame

RuleParagraph ==
    /\ InLoop(8)
    /\ LET content == ParagraphContent(Line)
       IN  IF IsImageParagraph(content)
           THEN \E tempId \in TempIds :
                    sblocks' = Append(sblocks, ImageBlock(Trim(content), tempId))
           ELSE IF hasCalloutSyntax(content)
           THEN \E uid \in UniqueIds :
                    sblocks' = processCalloutContentSimple(content, sblocks, uid)
           ELSE sblocks' = Append(sblocks, ParagraphBlock(content))
    /\ i' = i + 1
    /\ UNCHANGED loopFrame

RuleBr ==
    /\ InLoop(9)
    /\ sblocks' = Append(sblocks, createWpBlock("spacer", <<SpacerBodyTok>>, <<" {\"height\":\"50px\"}">>))
    /\ i' = i + 1
    /\ UNCHANGED loopFrame

RuleOther ==
    /\ InLoop(10)
    /\ sblocks' = IF TextContent(Line) # <<>>
                  THEN Append(sblocks, createParagraphBlock(TextContent(Line)))
                  ELSE sblocks
    /\ i' = i + 1
    /\ UNCHANGED loopFrame

Next ==
    \/ StartWithBlocks
    \/ StartWithoutBlocks
    \/ ExecRaw
    \/ ExecAdjacent
    \/ ExecTail
    \/ ExecDone
    \/ ReturnBetween
    \/ ReturnLast
    \/ Republish
    \/ RuleHeading
    \/ RuleHr
    \/ RuleTable
    \/ RulePre
    \/ RuleUl
    \/ RuleOl
    \/ RuleBlockquote
    \/ RuleParagraph
    \/ RuleBr
    \/ RuleOther

Spec == Init /\ [][Next]_vars

(***************************************************************************)
(* The callout extractor on its own: one call of                           *)
(* processCalloutContentSimple on a fragment with a marker of any kind in  *)
(* any letter case, with or without a title, a body and <p> markup.        *)
(***************************************************************************)
SegIdle ==
    /\ html = <<>> /\ pc = "idle" /\ blocks = <<>> /\ lastIndex = 0
    /\ match = NoMatch /\ htmlLines = <<>> /\ i = 0 /\ sblocks = <<>>
    /\ ret = "none" /\ output = <<>> /\ pass = 1 /\ firstOutput = <<>>

MixedCase(k) ==
    [n \in 1..Len(k) |-> IF n % 2 = 0 THEN ToUpperChar(k[n]) ELSE k[n]]
CaseVariants(k) == {k, ToUpperCase(k), Capitalize(k), MixedCase(k)}
\* what may follow the first marker, its title and its body: nothing, a
\* second marker on a line of its own, a second marker on the same line
LaterMarkers ==
    {<<>>,
     <<NL>> \o Marker(<<"t", "i", "p">>) \o <<SP, "Beta">>,
     <<SP>> \o Marker(<<"D", "a", "n", "g", "e", "r">>)}
CalloutFragments ==
    {IF w THEN <<"<p>">> \o Marker(v) \o t \o b \o l \o <<"</p>">>
          ELSE Marker(v) \o t \o b \o l :
        v \in UNION {CaseVariants(k) : k \in Kinds \cup {<<"f", "o", "o">>, <<"i", "n", "f", "o", "s">>}},
        t \in {<<>>, <<SP, "Careful">>}, b \in {<<>>, <<NL, "Alpha">>},
        l \in LaterMarkers, w \in BOOLEAN}

InitCallout ==
    /\ fragment \in CalloutFragments
    /\ alerts = <<>>
    /\ cpc = "ready"
    /\ SegIdle
    /\ EmbedIdle
    /\ ClientIdle

\* this.processCalloutContentSimple( content, blocks )
ExtractCallout ==
    /\ cpc = "ready"
    /\ \E uid \in UniqueIds :
           alerts' = processCalloutContentSimple(fragment, alerts, uid)
    /\ cpc' = "done"
    /\ UNCHANGED <<fragment, segVars, embedVars, clientVars>>

NextCallout == ExtractCallout

SpecCallout == InitCallout /\ [][NextCallout]_vars

(***************************************************************************)
(* The embed inline rule of the markdown-it plugin.  state.src is a        *)
(* sequence of characters, except that an alignment keyword, a reference   *)
(* name and a word are one token each.                                     *)
(***************************************************************************)
Digits == {"0", "1", "2", "3", "4", "5", "6", "7", "8", "9"}
tokenType == "ob_img"
\* the value undefined of an optional string
Undefined == <<>>

\* String.prototype.split with a one-character separator
RECURSIVE SplitBy(_, _)
SplitBy(s, d) ==
    IF Includes(s, d)
    THEN LET k == Min({m \in 1..Len(s) : s[m] = d})
         IN  <<SubSeq(s, 1, k - 1)>> \o SplitBy(SubSeq(s, k + 1, Len(s)), d)
    ELSE <<s>>

\* /^\d+$/.test( opt )
IsDigits(opt) == opt # <<>> /\ \A k \in 1..Len(opt) : opt[k] \in Digits
\* /^\d+x\d+$/.test( opt )
IsSize(opt) ==
    \E k \in 1..Len(opt) :
        /\ opt[k] = "x"
        /\ IsDigits(SubSeq(opt, 1, k - 1))
        /\ IsDigits(SubSeq(opt, k + 1, Len(opt)))

\* last index of the run of [^|\]\n] that starts at k; k - 1 when it is empty
RECURSIVE RunEnd(_, _)
RunEnd(s, k) ==
    IF k <= Len(s) /\ s[k] \notin {"|", "]", NL}
    THEN RunEnd(s, k + 1)
    ELSE k - 1

\* (\|[^|\]\n]+)* from k: the index that follows the last complete group
RECURSIVE GroupsEnd(_, _)
GroupsEnd(s, k) ==
    IF k <= Len(s) /\ s[k] = "|" /\ RunEnd(s, k + 1) >= k + 1
    THEN GroupsEnd(s, RunEnd(s, k + 1) + 1)
    ELSE k

NoEmbed == [found |-> FALSE, matched |-> <<>>, name |-> <<>>, opts |-> <<>>]

\* s.match( /^!\[\[([^|\]\n]+)((\|[^|\]\n]+)*)?\]\]/ ): groups 0, 1 and 2.
\* The character after a run is one the run excludes, so a shorter name or
\* fewer groups never lets \]\] match: the greedy match is the only one.
EmbedMatch(s) ==
    IF /\ Len(s) >= 3
       /\ s[1] = "!" /\ s[2] = "[" /\ s[3] = "["
       /\ RunEnd(s, 4) >= 4
    THEN LET n == RunEnd(s, 4)
             g == GroupsEnd(s, n + 1)
         IN  IF g + 1 <= Len(s) /\ s[g] = "]" /\ s[g + 1] = "]"
             THEN [found |-> TRUE,
                   matched |-> SubSeq(s, 1, g + 1),
                   name |-> SubSeq(s, 4, n),
                   opts |-> SubSeq(s, n + 1, g - 1)]
             ELSE NoEmbed
    ELSE NoEmbed

\* match[ 2 ] ? match[ 2 ].split( '|' ).slice( 1 ) : []
Options(m) == IF m.opts # <<>> THEN Tail(SplitBy(m.opts, "|")) ELSE <<>>

\* a body of the forEach that takes a size option for a width
ClassifySizeAsWidth(acc, opt) ==
    IF opt \in {<<"center">>, <<"left">>, <<"right">>}
    THEN [acc EXCEPT !.align = opt]
    ELSE IF IsSize(opt) \/ IsDigits(opt)
    THEN [acc EXCEPT !.width = SplitBy(opt, "x")[1]]
    ELSE acc

\* the body of options.forEach
Classify(acc, opt) ==
    IF opt \in {<<"center">>, <<"left">>, <<"right">>}
    THEN [acc EXCEPT !.align = opt]
    ELSE IF IsSize(opt)
    THEN [acc EXCEPT !.width = SplitBy(opt, "x")[1],
                     !.height = SplitBy(opt, "x")[2]]
    ELSE IF IsDigits(opt)
    THEN [acc EXCEPT !.width = opt]
    ELSE acc

RECURSIVE ForEach(_, _)
ForEach(acc, opts) ==
    IF opts = <<>> THEN acc
    ELSE ForEach(Classify(acc, Head(opts)), Tail(opts))

\* width, height and align after the forEach
Classified(opts) ==
    ForEach([width |-> Undefined, height |-> Undefined, align |-> Undefined],
            opts)

\* token.attrs
TokenAttrs(name, c) ==
    <<<<"src", name>>>>
        \o (IF c.width # Undefined THEN <<<<"width", c.width>>>> ELSE <<>>)
        \o (IF c.height # Undefined THEN <<<<"height", c.height>>>> ELSE <<>>)
        \o (IF c.align # Undefined THEN <<<<"align", c.align>>>> ELSE <<>>)

\* token.attrs?.[ n ]?.[ 1 ], n counted from 1
AttrAt(attrs, n) == IF n <= Len(attrs) THEN attrs[n][2] ELSE Undefined

\* the argument of pluginOptions.doWithImage
ImageActionParams(attrs) ==
    [src |-> AttrAt(attrs, 1), width |-> AttrAt(attrs, 2),
     height |-> AttrAt(attrs, 3)]

\* state.src.slice( state.pos )
Slice == SubSeq(stateSrc, statePos + 1, Len(stateSrc))

\* the rule matches and is not silent
EmbedRulePush ==
    /\ EmbedMatch(Slice).found
    /\ LET m == EmbedMatch(Slice)
           attrs == TokenAttrs(m.name, Classified(Options(m)))
       IN  /\ stateTokens' = Append(stateTokens,
                                    [type |-> tokenType, tag |-> "img",
                                     nesting |-> 0, attrs |-> attrs])
           /\ imgCalls' = Append(imgCalls, ImageActionParams(attrs))
           /\ statePos' = statePos + Len(m.matched)
    /\ silent' = FALSE
    /\ ruleResult' = "true"
    /\ UNCHANGED <<stateSrc, renderIdx, rendered, segVars, calloutVars, clientVars>>

\* the rule matches and is silent
EmbedRuleSilent ==
    /\ EmbedMatch(Slice).found
    /\ silent' = TRUE
    /\ ruleResult' = "true"
    /\ UNCHANGED <<stateSrc, statePos, stateTokens, imgCalls, renderIdx,
                   rendered, segVars, calloutVars, clientVars>>

\* the rule does not match
EmbedRuleDecline ==
    /\ ~EmbedMatch(Slice).found
    /\ silent' \in BOOLEAN
    /\ ruleResult' = "false"
    /\ UNCHANGED <<stateSrc, statePos, stateTokens, imgCalls, renderIdx,
                   rendered, segVars, calloutVars, clientVars>>

\* inputs of the rule
OptionChoices ==
    {<<"center">>, <<"left">>, <<"right">>,
     <<"1", "0", "0">>, <<"2", "0", "0">>,
     <<"1", "0", "0", "x", "5", "0">>, <<"2", "0", "0", "x", "7", "5">>,
     <<"x", "5", "0">>, <<"1", "0", "0", "x">>, <<"1", "0", "0", "p", "x">>,
     <<"Center">>, <<SP, "center">>, <<"foo">>}
OptionLists == UNION {[1..n -> OptionChoices] : n \in 0..MaxOpts}
Embed(name, opts) ==
    <<"!", "[", "[">> \o name
        \o Join([k \in 1..Len(opts) |-> <<"|">> \o opts[k]], <<>>)
        \o <<"]", "]">>
Malformed ==
    {<<"!", "[", "[", "a.png", "]">>,
     <<"!", "[", "[", "]", "]">>,
     <<"!", "[", "[", "a.png", "|", "]", "]">>,
     <<"!", "[", "[", "a.png", "|", "|", "1", "]", "]">>,
     <<"!", "[", "[", "a.png", NL, "]", "]">>,
     <<"!", "[", "[", "a.png", "|", "1", NL, "]", "]">>,
     <<"!", "[", "a.png", "]">>}
EmbedSrcs ==
    {Embed(n, o) : n \in {<<"a.png">>, <<"my", SP, "pic">>}, o \in OptionLists}
    \cup {lead \o Embed(<<"a.png">>, <<o>>) \o trail :
             lead \in {<<>>, <<"see", SP>>}, o \in OptionChoices,
             trail \in {<<>>, <<SP, "end">>}}
    \cup {Embed(<<"a.png">>, <<o>>) \o Embed(<<"b.png">>, <<>>) :
             o \in OptionChoices}
    \cup Malformed

InitEmbed ==
    /\ stateSrc \in EmbedSrcs
    /\ statePos \in 0..Len(stateSrc)
    /\ stateTokens = <<>>
    /\ silent = FALSE
    /\ ruleResult = "none"
    /\ imgCalls = <<>>
    /\ renderIdx = 0
    /\ rendered = <<>>
    /\ SegIdle
    /\ CalloutIdle
    /\ ClientIdle

NextEmbed ==
    \/ EmbedRulePush
    \/ EmbedRuleSilent
    \/ EmbedRuleDecline

SpecEmbed == InitEmbed /\ [][NextEmbed]_vars

(***************************************************************************)
(* The ob_img rendering rule of the plugin.  A token without attrs (null)  *)
(* and a token with an empty attrs array are both attrs = <<>>.            *)
(***************************************************************************)
\* a lookup that never finds the attribute align
FindAttrButAlign(attrs, key) ==
    IF key # "align" /\ \E k \in 1..Len(attrs) : attrs[k][1] = key
    THEN attrs[Min({k \in 1..Len(attrs) : attrs[k][1] = key})][2]
    ELSE Undefined

\* token.attrs?.find( a => a[ 0 ] === key )?.[ 1 ]
FindAttr(attrs, key) ==
    IF \E k \in 1..Len(attrs) : attrs[k][1] = key
    THEN attrs[Min({k \in 1..Len(attrs) : attrs[k][1] = key})][2]
    ELSE Undefined

\* ${ v } in a template literal
Interpolate(v) == IF v = Undefined THEN <<"undefined">> ELSE v

\* md.renderer.rules.ob_img( tokens, idx )
ob_img(tokens, idx) ==
    LET src == AttrAt(tokens[idx].attrs, 1)
        width == FindAttr(tokens[idx].attrs, "width")
        height == FindAttr(tokens[idx].attrs, "height")
        align == FindAttr(tokens[idx].attrs, "align")
        style ==
            (IF width # Undefined THEN <<"width:">> \o width \o <<"px;">>
                                  ELSE <<>>)
            \o (IF height # Undefined THEN <<"height:">> \o height \o <<"px;">>
                                      ELSE <<>>)
        alignClass ==
            IF align = <<"right">> THEN <<" alignright">>
            ELSE IF align = <<"left">> THEN <<" alignleft">>
            ELSE IF align = <<"center">> THEN <<" aligncenter">>
            ELSE <<>>
    IN  IF align # Undefined
        THEN <<"<figure class=\"wp-block-image ">> \o alignClass
                 \o <<"\"><img src=\"">> \o Interpolate(src)
                 \o <<"\" style=\"">> \o style \o <<"\" alt=\"\"/></figure>">>
        ELSE IF width # Undefined
        THEN IF height # Undefined
             THEN <<"<img src=\"">> \o Interpolate(src) \o <<"\" width=\"">>
                      \o width \o <<"\" height=\"">> \o height
                      \o <<"\" alt=\"\">">>
             ELSE <<"<img src=\"">> \o Interpolate(src) \o <<"\" width=\"">>
                      \o width \o <<"\" alt=\"\">">>
        ELSE <<"<img src=\"">> \o Interpolate(src) \o <<"\" alt=\"\">">>

\* tokens handed to the renderer: every token the inline rule can push, and
\* tokens that lack a src, a width or every attribute
RenderTokens ==
    {[type |-> tokenType, tag |-> "img", nesting |-> 0, attrs |-> a] :
        a \in {TokenAttrs(n, Classified(o)) :
                  n \in {<<"a.png">>, <<"my", SP, "pic">>}, o \in OptionLists}
              \cup {<<>>,
                    <<<<"width", <<"1", "0", "0">>>>>>,
                    <<<<"align", <<"center">>>>>>,
                    <<<<"src", <<"a.png">>>>, <<"height", <<"5", "0">>>>>>,
                    <<<<"src", <<"a.png">>>>, <<"height", <<"5", "0">>>>,
                      <<"align", <<"left">>>>>>}}

InitRender ==
    /\ stateTokens \in {<<t>> : t \in RenderTokens}
                          \cup {<<t, u>> : t, u \in RenderTokens}
    /\ renderIdx = 0
    /\ rendered = <<>>
    /\ stateSrc = <<>> /\ statePos = 0 /\ silent = FALSE
    /\ ruleResult = "none" /\ imgCalls = <<>>
    /\ SegIdle
    /\ CalloutIdle
    /\ ClientIdle

\* one call of the rendering rule
RenderObImg ==
    /\ \E idx \in 1..Len(stateTokens) :
           /\ renderIdx' = idx
           /\ rendered' = ob_img(stateTokens, idx)
    /\ UNCHANGED <<stateSrc, statePos, stateTokens, silent, ruleResult,
                   imgCalls, segVars, calloutVars, clientVars>>

SpecRender == InitRender /\ [][RenderObImg]_vars

(***************************************************************************)
(* tryToPublish: the temporary images of Excalidraw embeds.  Calls of      *)
(* tryToPublish on one client share vault and tempExcalidrawImages; a call *)
(* runs from the resolution of one await to the next await in one step.    *)
(* The embeds of a note are its Excalidraw drawings; one embed is          *)
(* <<"drawing", 0>>, <<"excalidraw", t>> once replaced by the image        *)
(* exported at time t, <<"url", t>> once that image is uploaded.           *)
(***************************************************************************)
Attempts == {1, 2}
Finished == {"returned", "thrown"}

\* updatePostImages from image j on, up to the next await: the next local
\* image that is in the vault is read; after the last one the content is
\* rendered and converted, which may throw, and publish is called
ImagesFrom(r, j) ==
    LET J == {m \in j..Len(r.content) :
                 r.content[m][1] = "excalidraw" /\ r.content[m] \in vault}
    IN  IF J # {}
        THEN {[r EXCEPT !.pc = "readBinary", !.k = Min(J)]}
        ELSE {[r EXCEPT !.pc = "publish"], [r EXCEPT !.pc = "thrown"]}

\* the call of updatePostImages: no active file throws, no active editor
\* skips the images
updatePostImages(r) ==
    {[r EXCEPT !.pc = "thrown"], [r EXCEPT !.pc = "publish"]}
        \cup ImagesFrom(r, 1)

\* convertExcalidrawToImage after embed r.k: the next embed, or the return
\* into tryToPublish and on into updatePostImages
AfterEmbed(r) ==
    IF r.k < Len(r.content)
    THEN {[r EXCEPT !.pc = "export", !.k = r.k + 1]}
    ELSE updatePostImages(r)

InitPublish ==
    /\ vault = {}
    /\ tempExcalidrawImages = <<>>
    /\ now = 0
    /\ att \in [Attempts ->
                 {[pc |-> "idle", content |-> [m \in 1..n |-> <<"drawing", 0>>],
                   k |-> 0, filePath |-> <<>>, live |-> TRUE, iter |-> <<>>,
                   ci |-> 0, threw |-> FALSE] : n \in 0..MaxDrawings}]
    /\ SegIdle
    /\ CalloutIdle
    /\ EmbedIdle
    /\ AuthIdle
    /\ ImagesIdle

\* publishPost calls tryToPublish, which awaits getTags
CallTryToPublish(a) ==
    /\ att[a].pc = "idle"
    /\ att' = [att EXCEPT ![a].pc = "getTags"]
    /\ UNCHANGED <<vault, tempExcalidrawImages, now, segVars, calloutVars, embedVars,
                   authVars, imageVars>>

\* getTags resolves (Promise.allSettled: it never rejects)
GetTagsDone(a) ==
    /\ att[a].pc = "getTags"
    /\ \E r \in AfterEmbed(att[a]) : att' = [att EXCEPT ![a] = r]
    /\ UNCHANGED <<vault, tempExcalidrawImages, now, segVars, calloutVars, embedVars,
                   authVars, imageVars>>

\* exportExcalidrawToImage gives no image: the drawing is no file of the
\* vault, or reading, parsing or exporting it throws (caught at line 251)
ExportNothing(a) ==
    /\ att[a].pc = "export"
    /\ \E r \in AfterEmbed(att[a]) : att' = [att EXCEPT ![a] = r]
    /\ UNCHANGED <<vault, tempExcalidrawImages, now, segVars, calloutVars, embedVars,
                   authVars, imageVars>>

\* excalidraw-${ Date.now() }.png is written with createBinary, which rejects
\* when the file exists (caught at line 304)
ExportCreateBinary(a) ==
    /\ att[a].pc = "export"
    /\ \E t \in now..MaxClock :
           /\ now' = t
           /\ IF <<"excalidraw", t>> \in vault
              THEN /\ \E r \in AfterEmbed(att[a]) : att' = [att EXCEPT ![a] = r]
                   /\ UNCHANGED vault
              ELSE /\ vault' = vault \cup {<<"excalidraw", t>>}
                   /\ att' = [att EXCEPT ![a].pc = "created",
                                         ![a].filePath = <<"excalidraw", t>>]
    /\ UNCHANGED <<tempExcalidrawImages, segVars, calloutVars, embedVars,
                   authVars, imageVars>>

\* createBinary resolves: this.tempExcalidrawImages.push( filePath ), and
\* convertExcalidrawToImage awaits adapter.exists
ExportPush(a) ==
    /\ att[a].pc = "created"
    /\ tempExcalidrawImages' = Append(tempExcalidrawImages, att[a].filePath)
    /\ att' = [att EXCEPT ![a].pc = "exists"]
    /\ UNCHANGED <<vault, now, segVars, calloutVars, embedVars,
                   authVars, imageVars>>

\* processedContent.replace( ..., imageTag ) and the next embed
ExportReplace(a) ==
    /\ att[a].pc = "exists"
    /\ \E r \in AfterEmbed([att[a] EXCEPT !.content[att[a].k] = att[a].filePath]) :
           att' = [att EXCEPT ![a] = r]
    /\ UNCHANGED <<vault, tempExcalidrawImages, now, segVars, calloutVars, embedVars,
                   authVars, imageVars>>

\* vault.readBinary resolves, or rejects when the file is gone, and
\* uploadMedia is called
ReadBinaryDone(a) ==
    /\ att[a].pc = "readBinary"
    /\ att' = [att EXCEPT ![a].pc =
                  IF att[a].content[att[a].k] \in vault THEN "uploadMedia"
                                                        ELSE "thrown"]
    /\ UNCHANGED <<vault, tempExcalidrawImages, now, segVars, calloutVars, embedVars,
                   authVars, imageVars>>

\* uploadMedia resolves: with code OK the embed is replaced by the URL
UploadMediaDone(a) ==
    /\ att[a].pc = "uploadMedia"
    /\ \E ok \in BOOLEAN :
           LET r == att[a]
               c == IF ok THEN [r.content EXCEPT ![r.k] = <<"url", r.content[r.k][2]>>]
                          ELSE r.content
           IN  \E q \in ImagesFrom([r EXCEPT !.content = c], r.k + 1) :
                   att' = [att EXCEPT ![a] = q]
    /\ UNCHANGED <<vault, tempExcalidrawImages, now, segVars, calloutVars, embedVars,
                   authVars, imageVars>>

\* publish resolves or fails; finally: cleanupTempExcalidrawImages up to
\* its first await
PublishDone(a) ==
    /\ att[a].pc = "publish"
    /\ \E threw \in BOOLEAN :
           att' = [att EXCEPT ![a] =
                      IF Len(tempExcalidrawImages) > 0
                      THEN [@ EXCEPT !.pc = "cleanup", !.ci = 1, !.live = TRUE,
                                     !.threw = threw]
                      ELSE [@ EXCEPT !.pc = IF threw THEN "thrown" ELSE "returned",
                                     !.threw = threw]]
    /\ UNCHANGED <<vault, tempExcalidrawImages, now, segVars, calloutVars, embedVars,
                   authVars, imageVars>>

\* adapter.remove resolves, or rejects for a file that is gone (caught); the
\* loop goes on over the array it started on, and after its last element
\* this.tempExcalidrawImages = []
CleanupRemove(a) ==
    /\ att[a].pc = "cleanup"
    /\ LET X == IF att[a].live THEN tempExcalidrawImages ELSE att[a].iter
       IN  /\ vault' = vault \ {X[att[a].ci]}
           /\ IF att[a].ci < Len(X)
              THEN /\ att' = [att EXCEPT ![a].ci = @ + 1]
                   /\ UNCHANGED tempExcalidrawImages
              ELSE /\ tempExcalidrawImages' = <<>>
                   /\ att' = [b \in Attempts |->
                                IF b = a
                                THEN [att[a] EXCEPT
                                         !.pc = IF att[a].threw THEN "thrown"
                                                                ELSE "returned"]
                                ELSE IF att[b].pc = "cleanup" /\ att[b].live
                                THEN [att[b] EXCEPT !.live = FALSE,
                                                    !.iter = tempExcalidrawImages]
                                ELSE att[b]]
    /\ UNCHANGED <<now, segVars, calloutVars, embedVars,
                   authVars, imageVars>>

NextPublish ==
    \E a \in Attempts :
        \/ CallTryToPublish(a)
        \/ GetTagsDone(a)
        \/ ExportNothing(a)
        \/ ExportCreateBinary(a)
        \/ ExportPush(a)
        \/ ExportReplace(a)
        \/ ReadBinaryDone(a)
        \/ UploadMediaDone(a)
        \/ PublishDone(a)
        \/ CleanupRemove(a)

SpecPublish == InitPublish /\ [][NextPublish]_vars

(***************************************************************************)
(* getAuth.  A credential is a record of a username and a password; ""     *)
(* is a value the profile does not hold, "null" is null.                   *)
(***************************************************************************)
Credentials == [username : {"u", "v"}, password : {"p", "q"}]

InitAuth ==
    /\ needLogin \in BOOLEAN
    /\ profile \in [username : {"", "u"}, password : {"", "p", "q"}]
    /\ valid \in SUBSET Credentials
    /\ auth = [username |-> "null", password |-> "null"]
    /\ authPc = "start"
    /\ prompted = FALSE
    /\ SegIdle
    /\ CalloutIdle
    /\ EmbedIdle
    /\ PublishIdle
    /\ ImagesIdle

\* needLogin() and a saved username and password: validateUser is awaited
GetAuthSaved ==
    /\ authPc = "start"
    /\ needLogin /\ profile.username # "" /\ profile.password # ""
    /\ auth' = [username |-> profile.username, password |-> profile.password]
    /\ authPc' = "validateUser"
    /\ UNCHANGED <<needLogin, profile, valid, prompted, segVars, calloutVars,
                   embedVars, publishVars, imageVars>>

\* no login needed, or no saved username or password: return auth
GetAuthUnsaved ==
    /\ authPc = "start"
    /\ ~(needLogin /\ profile.username # "" /\ profile.password # "")
    /\ authPc' = "returned"
    /\ UNCHANGED <<needLogin, profile, valid, auth, prompted, segVars,
                   calloutVars, embedVars, publishVars, imageVars>>

\* validateUser resolves with code OK: return auth; it resolves with
\* another code or rejects: catch, showError, openLoginModal
ValidateUserDone ==
    /\ authPc = "validateUser"
    /\ \E rejects \in BOOLEAN :
           IF ~rejects /\ auth \in valid
           THEN authPc' = "returned" /\ UNCHANGED prompted
           ELSE authPc' = "modal" /\ prompted' = TRUE
    /\ UNCHANGED <<needLogin, profile, valid, auth, segVars, calloutVars,
                   embedVars, publishVars, imageVars>>

\* the login modal hands the entered credential to its callback, which
\* awaits validateUser; the modal resolves with a credential the callback
\* accepted
LoginModalDone ==
    /\ authPc = "modal"
    /\ \E c \in Credentials :
           /\ c \in valid
           /\ auth' = c
    /\ authPc' = "returned"
    /\ UNCHANGED <<needLogin, profile, valid, prompted, segVars, calloutVars,
                   embedVars, publishVars, imageVars>>

NextAuth ==
    \/ GetAuthSaved
    \/ GetAuthUnsaved
    \/ ValidateUserDone
    \/ LoginModalDone

SpecAuth == InitAuth /\ [][NextAuth]_vars

(***************************************************************************)
(* updatePostImages and getImages.  postParams.content is a sequence of    *)
(* tokens as in the embed rule; an uploaded file gets the URL              *)
(* https://wp/<file name>.                                                 *)
(***************************************************************************)
\* isValidUrl( src )
isValidUrl(src) == src # <<>> /\ src[1] \in {"https://wp/", "https://x/"}

\* the index at which t first occurs in s as a run of tokens; 0: nowhere
IndexOf(s, t) ==
    LET K == {k \in 1..(Len(s) - Len(t) + 1) : SubSeq(s, k, k + Len(t) - 1) = t}
    IN  IF K = {} THEN 0 ELSE Min(K)

\* s.replace( t, r ) with a string t: the first occurrence only
Replace(s, t, r) ==
    IF IndexOf(s, t) = 0 THEN s
    ELSE SubSeq(s, 1, IndexOf(s, t) - 1) \o r
             \o SubSeq(s, IndexOf(s, t) + Len(t), Len(s))

\* /(!\[(.*?)(?:\|(\d+)(?:x(\d+))?)?]\((.*?)\))/ tried at index k of s: the
\* Image of the match, or <<>>.  The lazy alt text ends at the first "](" of
\* the line, or before a size |w or |wxh that ends there.
MarkdownImageAt(s, k) ==
    LET E == {e \in (k + 2)..(Len(s) - 1) :
                 /\ s[e] = "]" /\ s[e + 1] = "("
                 /\ \A m \in k..e : s[m] # NL}
        e == Min(E)
        C == {c \in (e + 2)..Len(s) : s[c] = ")" /\ \A m \in e..c : s[m] # NL}
        c == Min(C)
        B == {b \in (k + 2)..(e - 1) :
                 /\ s[b] = "|"
                 /\ \/ IsDigits(SubSeq(s, b + 1, e - 1))
                    \/ IsSize(SubSeq(s, b + 1, e - 1))}
        size == IF B = {} THEN <<>> ELSE SplitBy(SubSeq(s, Min(B) + 1, e - 1), "x")
    IN  IF k + 1 <= Len(s) /\ s[k] = "!" /\ s[k + 1] = "[" /\ E # {} /\ C # {}
        THEN [src |-> SubSeq(s, e + 2, c - 1),
              original |-> SubSeq(s, k, c),
              width |-> IF size # <<>> THEN size[1] ELSE Undefined,
              height |-> IF Len(size) > 1 THEN size[2] ELSE Undefined,
              srcIsUrl |-> isValidUrl(SubSeq(s, e + 2, c - 1))]
        ELSE <<>>

\* /(!\[\[([^\]]+)\]\])/ tried at index k of s
WikiImageAt(s, k) ==
    LET E == {e \in (k + 4)..(Len(s) - 1) :
                 /\ s[e] = "]" /\ s[e + 1] = "]"
                 /\ \A m \in (k + 3)..(e - 1) : s[m] # "]"}
    IN  IF k + 2 <= Len(s) /\ s[k] = "!" /\ s[k + 1] = "[" /\ s[k + 2] = "[" /\ E # {}
        THEN [src |-> SplitBy(SubSeq(s, k + 3, Min(E) - 1), "|")[1],
              original |-> SubSeq(s, k, Min(E) + 1),
              width |-> Undefined,
              height |-> Undefined,
              srcIsUrl |-> isValidUrl(SplitBy(SubSeq(s, k + 3, Min(E) - 1), "|")[1])]
        ELSE <<>>

\* while ( ( match = regex.exec( content ) ) !== null ) paths.push( ... )
RECURSIVE ExecAll(_, _, _)
ExecAll(regex, s, k) ==
    LET found == IF regex = "markdown" THEN MarkdownImageAt(s, k)
                 ELSE WikiImageAt(s, k)
    IN  IF k > Len(s) THEN <<>>
        ELSE IF found = <<>> THEN ExecAll(regex, s, k + 1)
        ELSE <<found>> \o ExecAll(regex, s, k + Len(found.original))

getImages(content) ==
    ExecAll("markdown", content, 1) \o ExecAll("wiki", content, 1)

\* the files of the vault: getFirstLinkpathDest gives a TFile for them
VaultFiles == {<<"a.png">>, <<"b.png">>}

\* the text an uploaded image is replaced by
Rewritten(img, url) ==
    IF img.width # Undefined /\ img.height # Undefined
    THEN <<"!", "[", "[">> \o url \o <<"|">> \o img.width \o <<"x">>
             \o img.height \o <<"]", "]">>
    ELSE IF img.width # Undefined
    THEN <<"!", "[", "[">> \o url \o <<"|">> \o img.width \o <<"]", "]">>
    ELSE <<"!", "[", "[">> \o url \o <<"]", "]">>

\* the lines of a note: embeds of a file of the vault with options, of a
\* missing file, of a URL; markdown images with and without a size
ImageLines ==
    {Embed(<<"a.png">>, o) :
        o \in {<<>>, <<<<"1", "0", "0">>, <<"center">>>>}
                 \cup {<<c>> : c \in OptionChoices}}
    \cup {Embed(<<"b.png">>, <<<<"2", "0", "0", "x", "7", "5">>>>),
          Embed(<<"gone.png">>, <<<<"1", "0", "0">>>>),
          Embed(<<"https://x/", "c.png">>, <<<<"1", "0", "0">>>>),
          <<"!", "[", "alt", "]", "(", "a.png", ")">>,
          <<"!", "[", "alt", "|", "1", "0", "0", "]", "(", "a.png", ")">>,
          <<"!", "[", "alt", "|", "1", "0", "0", "x", "5", "0", "]", "(", "b.png", ")">>,
          <<"!", "[", "alt", "]", "(", "https://x/", "c.png", ")">>}

InitImages ==
    /\ postContent \in {Join(f, <<NL>>) :
                          f \in UNION {[1..n -> ImageLines] : n \in 1..MaxImgs}}
    /\ images = <<>>
    /\ imgIdx = 0
    /\ imgPc = "start"
    /\ SegIdle
    /\ CalloutIdle
    /\ EmbedIdle
    /\ PublishIdle
    /\ AuthIdle

\* const images = getImages( postParams.content )
CallUpdatePostImages ==
    /\ imgPc = "start"
    /\ images' = getImages(postContent)
    /\ imgIdx' = 1
    /\ imgPc' = "loop"
    /\ UNCHANGED <<postContent, segVars, calloutVars, embedVars, publishVars,
                   authVars>>

Img == images[imgIdx]
\* img.src.split( '|' )[ 0 ]
ImgFile == SplitBy(Img.src, "|")[1]
InImageLoop ==
    imgPc \in {"loop", "url", "nofile", "uploaded", "failed"} /\ imgIdx <= Len(images)

\* src is a url, skip uploading
ImageIsUrl ==
    /\ InImageLoop
    /\ Img.srcIsUrl
    /\ imgPc' = "url"
    /\ imgIdx' = imgIdx + 1
    /\ UNCHANGED <<postContent, images, segVars, calloutVars, embedVars,
                   publishVars, authVars>>

\* imgFile is no TFile
ImageNoFile ==
    /\ InImageLoop
    /\ ~Img.srcIsUrl
    /\ ImgFile \notin VaultFiles
    /\ imgPc' = "nofile"
    /\ imgIdx' = imgIdx + 1
    /\ UNCHANGED <<postContent, images, segVars, calloutVars, embedVars,
                   publishVars, authVars>>

\* uploadMedia resolves with code OK
ImageUploaded ==
    /\ InImageLoop
    /\ ~Img.srcIsUrl
    /\ ImgFile \in VaultFiles
    /\ postContent' = Replace(postContent, Img.original,
                              Rewritten(Img, <<"https://wp/">> \o ImgFile))
    /\ imgPc' = "uploaded"
    /\ imgIdx' = imgIdx + 1
    /\ UNCHANGED <<images, segVars, calloutVars, embedVars, publishVars,
                   authVars>>

\* uploadMedia resolves with another code: a Notice, nothing else
ImageUploadFailed ==
    /\ InImageLoop
    /\ ~Img.srcIsUrl
    /\ ImgFile \in VaultFiles
    /\ imgPc' = "failed"
    /\ imgIdx' = imgIdx + 1
    /\ UNCHANGED <<postContent, images, segVars, calloutVars, embedVars,
                   publishVars, authVars>>

NextImages ==
    \/ CallUpdatePostImages
    \/ ImageIsUrl
    \/ ImageNoFile
    \/ ImageUploaded
    \/ ImageUploadFailed

SpecImages == InitImages /\ [][NextImages]_vars

(***************************************************************************)
(* Properties of the block segmenter.                                      *)
(***************************************************************************)
Last(q) == q[Len(q)]

\* position in the source of the text an output or input token carries (0: none)
LabelIndex(t) ==
    IF \E k \in 1..Len(Labels) : t = Labels[k] \/ t = ImgTag(Labels[k], "pic")
    THEN CHOOSE k \in 1..Len(Labels) : t = Labels[k] \/ t = ImgTag(Labels[k], "pic")
    ELSE 0
LabelsIn(q) == {LabelIndex(q[k]) : k \in 1..Len(q)} \ {0}
\* the blocks of a list carry source texts of increasing position
BlockOrder(bs) ==
    \A a, b \in 1..Len(bs) :
        a < b => \A x \in LabelsIn(bs[a]), y \in LabelsIn(bs[b]) : x < y

\* the input holds block delimiters and raw HTML
Interleaved(h) == BlockExec(h, 0) # NoMatch /\ \E k \in 1..Len(h) : h[k] \in Tags

\* C1: the blocks of the output stand in source order: reading the block list
\* from first to last, the source texts they carry appear in the order they have
\* in the input, preserved blocks and synthesized blocks alike.
C1_SourceOrder ==
    /\ BlockOrder(blocks)
    /\ BlockOrder(sblocks)
    /\ (pc = "done" => output = Join(blocks, <<NL, NL>>))

\* C1 witness: a preserved quote followed by a raw paragraph gave
\* [preserved-quote, paragraph]
C1_Witness ==
    /\ pc = "done" /\ pass = 1
    /\ html = Shape(27, "Alpha") \o <<NL, "<p>", "Beta", "</p>">>
    /\ Interleaved(html)
    /\ Len(blocks) = 2
    /\ blocks[1] = <<OpenTok, "quote", ArrowTok, NL, QuoteOpenTok, "Alpha", "</blockquote>",
                     NL, CloseTok, "quote", ArrowTok>>
    /\ blocks[2] = <<OpenTok, "paragraph", ArrowTok, NL, "<p>", "Beta", "</p>",
                     NL, CloseTok, "paragraph", ArrowTok>>

\* type named by the opening and by the closing delimiter of a block
OpenType(b) == b[2]
CloseType(b) == b[Len(b) - 1]

\* C2: every block kept by convertToWordPressBlocks runs from its opening
\* delimiter to the closing delimiter of the same type, nested blocks of another
\* type included, and no delimiter of a kept block reaches splitContentIntoBlocks.
C2_PreservedRegionClosesOwnType ==
    /\ \A k \in 1..Len(blocks) :
           blocks[k][1] = OpenTok => CloseType(blocks[k]) = OpenType(blocks[k])
    /\ (pc = "split" /\ ret \in {"between", "tail"}) =>
           \A k \in 1..Len(htmlLines) : ~Includes(htmlLines[k], CloseTok)

\* C3: converting the output of convertToWordPressBlocks again returns it unchanged.
C3_Idempotent == (pass = 2 /\ pc = "done") => output = firstOutput

\* words of the generated documents (text outside tags and outside callout markers)
Words == LabelSet \cup {"Title", "Hello", "Careful", "Do", "X", "it", "more", "code", "bold", "Item", "Sub", "See"}
HasDelimiters(h) == Includes(h, OpenTok) \/ Includes(h, CloseTok)

\* C4: for an input without block delimiters no text is dropped: every word of
\* the input is found in the output.
C4_NoTextDropped ==
    (pass = 1 /\ pc = "done" /\ ~HasDelimiters(html)) =>
        \A k \in 1..Len(html) : html[k] \in Words => Includes(output, html[k])

\* the closing tag the multi-line rule n scans for
CloseOf(n) ==
    CASE n = 3 -> {"</table>", TableFigureEndTok} [] n = 4 -> {"</pre>", CodePreEndTok} [] n = 5 -> {"</ul>"}
      [] n = 6 -> {"</ol>"} [] n = 7 -> {"</blockquote>"}
\* the construct opened at the current line is not closed before the input ends
UnterminatedHere ==
    /\ pc = "split" /\ i < Len(htmlLines)
    /\ RuleOf(Line) \in 3..7
    /\ \A j \in (i + 1)..Len(htmlLines) : ~IncludesAny(htmlLines[j], CloseOf(RuleOf(Line)))

\* C5: an unterminated table, pre, ul, ol or blockquote is consumed in one step
\* that emits exactly one block holding the text of every line from the opener
\* to the last line of the input, and the scan is over.
C5_UnterminatedToEnd ==
    [][UnterminatedHere =>
          /\ pc' = "split"
          /\ Len(sblocks') = Len(sblocks) + 1
          /\ SubSeq(sblocks', 1, Len(sblocks)) = sblocks
          /\ i' >= Len(htmlLines)
          /\ htmlLines' = htmlLines
          /\ Last(sblocks')[1] = OpenTok
          /\ \A j \in (i + 1)..Len(htmlLines) : \A k \in 1..Len(htmlLines[j]) :
                 htmlLines[j][k] \in Words => Includes(Last(sblocks'), htmlLines[j][k])
      ]_vars

\* C5 witness: an unterminated table followed by a paragraph was consumed to the
\* end of the input as one block
C5_Witness ==
    /\ pc = "split"
    /\ htmlLines = <<<<"<table>">>, <<"<tr>", "<td>", "Alpha", "</td>", "</tr>">>,
                     <<"<p>", "Beta", "</p>">>>>
    /\ i = Len(htmlLines) + 1
    /\ Len(sblocks) = 1
    /\ Includes(sblocks[1], "Alpha") /\ Includes(sblocks[1], "Beta")

ExpectedHeading == <<OpenTok, "heading", ArrowTok, NL, "<h2>", "Title", "</h2>", NL,
                     CloseTok, "heading", ArrowTok>>
ExpectedHello == <<OpenTok, "paragraph", ArrowTok, NL, "<p>", "Hello", "</p>", NL,
                   CloseTok, "paragraph", ArrowTok>>
ExpectedImage(id) ==
    <<OpenTok, "image", " {\"id\":", id,
      ",\"sizeSlug\":\"large\",\"linkDestination\":\"none\",\"align\":\"center\"}",
      ArrowTok, NL,
      "<figure class=\"wp-block-image aligncenter size-large\">", "<img src=\"", "a.png",
      "\" alt=\"", "", "\" class=\"wp-image-", id, "\"/>", "</figure>", NL,
      CloseTok, "image", ArrowTok>>
ThreeBlocks ==
    /\ Len(blocks) = 3
    /\ blocks[1] = ExpectedHeading
    /\ blocks[2] = ExpectedHello
    /\ \E id \in {"600", "1599"} : blocks[3] = ExpectedImage(id)

\* C6 as stated: the three elements written on one line, with no line break
\* between them, yield the three blocks heading, paragraph, image.
C6_OneLineThreeBlocks ==
    (pass = 1 /\ pc = "done" /\ html = E2EOneLine) => ThreeBlocks

\* C6 amended: the three elements, each on a line of its own, yield exactly the
\* three blocks heading (no level attribute), paragraph Hello, image a.png with
\* center-aligned large-size styling, in this order.
C6_LinesThreeBlocks ==
    (pass = 1 /\ pc = "done" /\ html = E2ELines) =>
        /\ ThreeBlocks
        /\ \E id \in {"600", "1599"} :
               output = ExpectedHeading \o <<NL, NL>> \o ExpectedHello \o <<NL, NL>>
                            \o ExpectedImage(id)

\* C6 witness: the three-line input has been converted
C6_Witness == pass = 1 /\ pc = "done" /\ html = E2ELines /\ Len(blocks) = 3

\* the attribute values of an alert block
AttrBetween(b, from, to) ==
    LET a == CHOOSE k \in 1..Len(b) : b[k] = from
        z == CHOOSE k \in 1..Len(b) : b[k] = to
    IN  SubSeq(b, a + 1, z - 1)
IsAlert(b) ==
    /\ Len(b) > 2 /\ b[1] = OpenTok /\ b[2] = "mediaron/alerts-dlx-chakra"
    /\ Includes(b, AlertTitleKey) /\ Includes(b, AlertUniqueIdKey)
AlertTitleIn(b) == AttrBetween(b, AlertTitleKey, AlertUniqueIdKey)
AlertTypeIn(b) == AttrBetween(b, AlertTypeKey, AlertTitleKey)
AlertClassIn(b) == AttrBetween(b, AlertClassKey, AlertAttrEnd)
\* the quoted body of the inner paragraph of an alert block
AlertBodyIn(b) ==
    LET a == CHOOSE k \in 1..Len(b) : b[k] = " {\"placeholder\":\"\"}"
    IN  SubSeq(b, a + 5, Len(b) - 10)

\* C7: the two-line paragraph  <p>[!warning] Careful / Do X</p>  becomes exactly
\* one alert block with category warning, title Careful and body Do X.
C7_TwoLineParagraphCallout ==
    (pass = 1 /\ pc = "done" /\ html = ParagraphTwoLines) =>
        /\ Len(blocks) = 1
        /\ IsAlert(blocks[1])
        /\ AlertTypeIn(blocks[1]) = <<"warning">>
        /\ AlertTitleIn(blocks[1]) = <<"Careful">>
        /\ AlertBodyIn(blocks[1]) = <<"Do", SP, "X">>

\* the text that follows the first marker of a fragment on the marker's line,
\* markup aside, trimmed; the capitalized kind when there is none
TitleOnMarkerLine(frag) ==
    LET k == MarkerStart(frag)
        e == KindEnd(frag, k)
        L == {m \in (e + 1)..Len(frag) : frag[m] = NL}
        c == IF L = {} THEN Len(frag) ELSE Min(L) - 1
        text == Trim(RemoveAll(SubSeq(frag, e + 1, c), Tags))
    IN  IF text # <<>> THEN text
        ELSE Capitalize(ToLowerCase(SubSeq(frag, k + 1, e - 1)))

\* the fragment the current line hands to the callout extractor (<<>>: none)
CalloutFragment ==
    IF InLoop(7) /\ hasCalloutSyntax(QuoteInner(htmlLines, i))
    THEN QuoteInner(htmlLines, i)
    ELSE IF InLoop(8) /\ ~IsImageParagraph(ParagraphContent(Line))
              /\ hasCalloutSyntax(ParagraphContent(Line))
    THEN ParagraphContent(Line)
    ELSE <<>>

\* C8: from the paragraph rule and from the blockquote rule alike, the title of
\* the alert is the trimmed text after the marker on its line, and the
\* capitalized kind when no text follows the marker.
C8_TitleFromMarkerLine ==
    [][CalloutFragment # <<>> =>
          /\ Len(sblocks') = Len(sblocks) + 1
          /\ IsAlert(Last(sblocks'))
          /\ AlertTitleIn(Last(sblocks')) = TitleOnMarkerLine(CalloutFragment)
      ]_vars

(***************************************************************************)
(* Properties of the callout extractor.                                    *)
(***************************************************************************)
\* the letters between the marker's "[!" and "]"
KindIn(frag) ==
    LET a == Min({k \in 1..Len(frag) : frag[k] = MarkerOpen})
        z == Min({k \in 1..Len(frag) : frag[k] = MarkerClose})
    IN  SubSeq(frag, a + 1, z - 1)

WarningKinds ==
    {<<"w", "a", "r", "n", "i", "n", "g">>, <<"c", "a", "u", "t", "i", "o", "n">>,
     <<"d", "a", "n", "g", "e", "r">>}
SuccessKinds == {<<"s", "u", "c", "c", "e", "s", "s">>}
ErrorKinds == {<<"e", "r", "r", "o", "r">>, <<"f", "a", "i", "l", "u", "r", "e">>}
InfoKinds ==
    {<<"i", "n", "f", "o">>, <<"n", "o", "t", "e">>, <<"t", "i", "p">>,
     <<"b", "u", "g">>, <<"e", "x", "a", "m", "p", "l", "e">>,
     <<"q", "u", "o", "t", "e">>, <<"c", "i", "t", "e">>,
     <<"a", "b", "s", "t", "r", "a", "c", "t">>,
     <<"s", "u", "m", "m", "a", "r", "y">>, <<"t", "l", "d", "r">>,
     <<"i", "n", "f", "o", "+">>, <<"q", "u", "e", "s", "t", "i", "o", "n">>,
     <<"h", "e", "l", "p">>, <<"f", "a", "q">>}
\* the category the mapping table gives a kind written in any letter case
CategoryOf(kind) ==
    LET k == ToLowerCase(kind)
    IN  IF k \in WarningKinds THEN "warning"
        ELSE IF k \in SuccessKinds THEN "success"
        ELSE IF k \in ErrorKinds THEN "error"
        ELSE IF k \in InfoKinds THEN "info"
        ELSE "unrecognized"

\* C9: for every recognized kind in any letter case the extractor emits one
\* alert whose alertType is the category of the mapping table (warning,
\* caution, danger -> warning; success -> success; error, failure -> error;
\* the fourteen others -> info) and whose is-style- class names the same
\* category.
C9_CategoryMapping ==
    (cpc = "done" /\ CategoryOf(KindIn(fragment)) # "unrecognized") =>
        /\ Len(alerts) = 1
        /\ IsAlert(alerts[1])
        /\ AlertTypeIn(alerts[1]) = <<CategoryOf(KindIn(fragment))>>
        /\ AlertClassIn(alerts[1]) = AlertTypeIn(alerts[1])

C9_Witness ==
    /\ cpc = "done"
    /\ KindIn(fragment) = <<"c", "A", "u", "T", "i", "O", "n">>
    /\ Len(alerts) = 1
    /\ AlertTypeIn(alerts[1]) = <<"warning">>
    /\ AlertClassIn(alerts[1]) = <<"warning">>

(***************************************************************************)
(* Properties of the embed inline rule.                                    *)
(***************************************************************************)
\* the text the rule has just consumed, without its ![[ and ]], cut at the |
ConsumedParts == SplitBy(SubSeq(stateSrc, statePos + 4, statePos' - 2), "|")
\* the largest index of an option with property P; 0 when there is none
LastOption(opts, P(_)) ==
    LET S == {k \in 1..Len(opts) : P(opts[k])}
    IN  IF S = {} THEN 0 ELSE CHOOSE k \in S : \A m \in S : m <= k
IsAlignWord(o) == o = <<"center">> \/ o = <<"left">> \/ o = <<"right">>
AllDigits(o) == Len(o) > 0 /\ \A k \in 1..Len(o) : o[k] \in Digits
XAt(o) == CHOOSE k \in 1..Len(o) : o[k] = "x"
IsWxH(o) ==
    /\ Cardinality({k \in 1..Len(o) : o[k] = "x"}) = 1
    /\ AllDigits(SubSeq(o, 1, XAt(o) - 1))
    /\ AllDigits(SubSeq(o, XAt(o) + 1, Len(o)))
SetsWidth(o) == AllDigits(o) \/ IsWxH(o)
\* the attributes that reading the options from left to right leaves
ExpectedAttrs(name, opts) ==
    LET a == LastOption(opts, IsAlignWord)
        w == LastOption(opts, SetsWidth)
        h == LastOption(opts, IsWxH)
    IN  <<<<"src", name>>>>
        \o (IF w = 0 THEN <<>>
            ELSE IF IsWxH(opts[w])
            THEN <<<<"width", SubSeq(opts[w], 1, XAt(opts[w]) - 1)>>>>
            ELSE <<<<"width", opts[w]>>>>)
        \o (IF h = 0 THEN <<>>
            ELSE <<<<"height",
                     SubSeq(opts[h], XAt(opts[h]) + 1, Len(opts[h]))>>>>)
        \o (IF a = 0 THEN <<>> ELSE <<<<"align", opts[a]>>>>)
W100 == <<"1", "0", "0">>
H50 == <<"5", "0">>

\* C10: a call of the rule that matches an embed and is not silent emits one
\* token whose src is the reference name and whose width, height and align
\* are what the options set when read from left to right (an alignment word
\* sets align, digits x digits sets width and height, digits set width, any
\* other option sets nothing); |100x50 gives width 100 and height 50, |100
\* width 100 only, |center align center and neither width nor height.
C10_OptionsClassified ==
    [][(ruleResult' = "true" /\ silent' = FALSE) =>
          LET name == Head(ConsumedParts)
              opts == Tail(ConsumedParts)
              attrs == Last(stateTokens').attrs
          IN  /\ Len(stateTokens') = Len(stateTokens) + 1
              /\ Last(stateTokens').type = tokenType
              /\ attrs = ExpectedAttrs(name, opts)
              /\ opts = <<W100 \o <<"x">> \o H50>> =>
                     attrs = <<<<"src", name>>, <<"width", W100>>,
                               <<"height", H50>>>>
              /\ opts = <<W100>> =>
                     attrs = <<<<"src", name>>, <<"width", W100>>>>
              /\ opts = <<<<"center">>>> =>
                     attrs = <<<<"src", name>>, <<"align", <<"center">>>>>>
      ]_vars

C10_Witness ==
    /\ ruleResult = "true" /\ silent = FALSE
    /\ Len(stateTokens) = 1
    /\ stateTokens[1].attrs =
           <<<<"src", <<"my", SP, "pic">>>>, <<"width", W100>>,
             <<"height", H50>>, <<"align", <<"left">>>>>>

\* the options in the order p
Reordered(opts, p) == [k \in 1..Len(opts) |-> opts[p[k]]]
\* the alignment keywords of the options, in their order
AlignWords(opts) == SelectSeq(opts, IsAlignWord)

\* C11: the width, height and align of the emitted token do not depend on the
\* order in which the options of the embed are written, save that the last
\* alignment keyword wins: every reordering of the options gives the same
\* width and height, and the same align when it keeps the alignment keywords
\* in their order.
C11_OrderIndependent ==
    [][(ruleResult' = "true" /\ silent' = FALSE) =>
          LET name == Head(ConsumedParts)
              opts == Tail(ConsumedParts)
              attrs == Last(stateTokens').attrs
          IN  \A p \in Permutations(1..Len(opts)) :
                  LET other == TokenAttrs(name, Classified(Reordered(opts, p)))
                  IN  /\ FindAttr(other, "width") = FindAttr(attrs, "width")
                      /\ FindAttr(other, "height") = FindAttr(attrs, "height")
                      /\ AlignWords(Reordered(opts, p)) = AlignWords(opts) =>
                             FindAttr(other, "align") = FindAttr(attrs, "align")
      ]_vars

(***************************************************************************)
(* Properties of the ob_img rendering rule.                                *)
(***************************************************************************)
RenderedAttrs == stateTokens[renderIdx].attrs
HasAttr(key) == \E k \in 1..Len(RenderedAttrs) : RenderedAttrs[k][1] = key
ValueOfAttr(key) ==
    RenderedAttrs[CHOOSE k \in 1..Len(RenderedAttrs) :
                      RenderedAttrs[k][1] = key][2]
\* q holds the tokens of part side by side
Contains(q, part) ==
    \E k \in 0..(Len(q) - Len(part)) : SubSeq(q, k + 1, k + Len(part)) = part
EndsWith(q, part) ==
    Len(q) >= Len(part) /\ SubSeq(q, Len(q) - Len(part) + 1, Len(q)) = part
WidthAttrTok == "\" width=\""
HeightAttrTok == "\" height=\""
ImgOpenTok == "<img src=\""
ImgEndTok == "\" alt=\"\">"

\* C12: the renderer gives one of four outputs.  With align: a figure that
\* wraps an img, carries the alignment class of the value and has width and
\* height as px style, never as attributes.  Else with width and height: an
\* img with both attributes.  Else with width: an img with the width
\* attribute only.  Else: a bare img with the source only.
C12_RendererBranches ==
    renderIdx # 0 =>
        IF HasAttr("align")
        THEN /\ Head(rendered) = "<figure class=\"wp-block-image "
             /\ rendered[2] = " align" \o ValueOfAttr("align")[1]
             /\ Contains(rendered, <<"\"><img src=\"">>)
             /\ Last(rendered) = "\" alt=\"\"/></figure>"
             /\ IF HasAttr("width")
                THEN Contains(rendered,
                              <<"width:">> \o ValueOfAttr("width") \o <<"px;">>)
                ELSE ~Includes(rendered, "width:")
             /\ IF HasAttr("height")
                THEN Contains(rendered,
                              <<"height:">> \o ValueOfAttr("height")
                                  \o <<"px;">>)
                ELSE ~Includes(rendered, "height:")
             /\ ~Includes(rendered, WidthAttrTok)
             /\ ~Includes(rendered, HeightAttrTok)
        ELSE /\ Head(rendered) = ImgOpenTok
             /\ ~Includes(rendered, "\" style=\"")
             /\ IF HasAttr("width") /\ HasAttr("height")
                THEN EndsWith(rendered,
                              <<WidthAttrTok>> \o ValueOfAttr("width")
                                  \o <<HeightAttrTok>> \o ValueOfAttr("height")
                                  \o <<ImgEndTok>>)
                ELSE IF HasAttr("width")
                THEN /\ EndsWith(rendered,
                                 <<WidthAttrTok>> \o ValueOfAttr("width")
                                     \o <<ImgEndTok>>)
                     /\ ~Includes(rendered, HeightAttrTok)
                ELSE /\ Last(rendered) = ImgEndTok
                     /\ ~Includes(rendered, WidthAttrTok)
                     /\ ~Includes(rendered, HeightAttrTok)

C12_Witness ==
    /\ renderIdx = 1
    /\ RenderedAttrs = <<<<"src", <<"a.png">>>>, <<"width", W100>>,
                         <<"height", H50>>, <<"align", <<"center">>>>>>
    /\ rendered = <<"<figure class=\"wp-block-image ", " aligncenter",
                    "\"><img src=\"", "a.png", "\" style=\"",
                    "width:", "1", "0", "0", "px;", "height:", "5", "0", "px;",
                    "\" alt=\"\"/></figure>">>

\* the tokens of the rendered string between  src="  and the next  "
RenderedSrc ==
    LET a == CHOOSE k \in 1..Len(rendered) :
                 rendered[k] \in {ImgOpenTok, "\"><img src=\""}
        z == Min({k \in (a + 1)..Len(rendered) :
                     rendered[k] \in {ImgEndTok, WidthAttrTok, "\" style=\""}})
    IN  SubSeq(rendered, a + 1, z - 1)

\* C13: for every token, also one without a src attribute or without any
\* attribute, the renderer returns a string with an empty alt attribute, and
\* a missing src is rendered as the empty source src="".
C13_MissingSrcRendersEmpty ==
    renderIdx # 0 =>
        /\ Last(rendered) \in {ImgEndTok, "\" alt=\"\"/></figure>"}
        /\ ~HasAttr("src") => RenderedSrc = <<>>

\* C14: every embed matched in non-silent mode has one call of doWithImage,
\* with the src of its token, the width attribute of its token and the height
\* attribute of its token, each absent when the token has none; for an embed
\* with an alignment keyword only the call has neither width nor height.
C14_CallbackGetsTokenSize ==
    /\ Len(imgCalls) = Len(stateTokens)
    /\ \A k \in 1..Len(stateTokens) :
           /\ imgCalls[k].src = FindAttr(stateTokens[k].attrs, "src")
           /\ imgCalls[k].width = FindAttr(stateTokens[k].attrs, "width")
           /\ imgCalls[k].height = FindAttr(stateTokens[k].attrs, "height")

(***************************************************************************)
(* Properties of the block assembler.                                      *)
(***************************************************************************)
\* the types whose blocks are written without an attribute payload
BareTypes == {"code", "quote", "paragraph"}
\* b is  <!-- wp:TYPE payload -->, line break, body, line break,
\* <!-- /wp:TYPE -->
Serialized(b) ==
    /\ Len(b) >= 7
    /\ b[1] = OpenTok
    /\ \E a \in 3..(Len(b) - 5) :
           /\ b[a] = ArrowTok
           /\ \A k \in 3..(a - 1) : b[k] \notin {ArrowTok, NL, OpenTok, CloseTok}
           /\ b[2] \in BareTypes => a = 3
           /\ b[a + 1] = NL
    /\ SubSeq(b, Len(b) - 3, Len(b)) = <<NL, CloseTok, b[2], ArrowTok>>
\* the number of tokens of the first n blocks and of the separators after them
RECURSIVE Offset(_, _)
Offset(bs, n) == IF n = 0 THEN 0 ELSE Offset(bs, n - 1) + Len(bs[n]) + 2

\* C15: every synthesized block is the opening delimiter with its payload
\* (none when the payload is empty), a line break, the body, a line break and
\* the closing delimiter of the same type; the returned string is the blocks
\* with one blank line between consecutive blocks and nothing before the
\* first or after the last.
C15_Serialization ==
    /\ \A k \in 1..Len(sblocks) : Serialized(sblocks[k])
    /\ pc = "done" =>
           /\ \A k \in 1..Len(blocks) :
                  SubSeq(output, Offset(blocks, k - 1) + 1,
                         Offset(blocks, k) - 2) = blocks[k]
           /\ \A k \in 1..(Len(blocks) - 1) :
                  SubSeq(output, Offset(blocks, k) - 1, Offset(blocks, k))
                      = <<NL, NL>>
           /\ Len(output) = IF blocks = <<>> THEN 0
                            ELSE Offset(blocks, Len(blocks)) - 2

C15_Witness ==
    /\ pass = 1 /\ pc = "done" /\ Len(blocks) = 2
    /\ blocks[1][2] = "heading" /\ blocks[1][3] # ArrowTok
    /\ blocks[2][2] = "paragraph" /\ blocks[2][3] = ArrowTok
    /\ sblocks = blocks
    /\ output = blocks[1] \o <<NL, NL>> \o blocks[2]

(***************************************************************************)
(* Properties of the scan of splitContentIntoBlocks.                       *)
(***************************************************************************)
\* the opening tags of the construct of rule n
OpenOf(n) ==
    CASE n = 3 -> {"<table>", FigureTableTok} [] n = 4 -> {"<pre>", PreCodeTok}
      [] n = 5 -> {"<ul>"} [] n = 6 -> {"<ol>"}
      [] n = 7 -> {"<blockquote>", QuoteOpenTok}
\* the number of tokens of a line that are in D
CountIn(line, D) == Cardinality({k \in 1..Len(line) : line[k] \in D})
\* the line (counted from 1) on which the construct of rule n that is open
\* depth times before line j closes; 0 when it never closes
RECURSIVE MatchingCloseLine(_, _, _, _)
MatchingCloseLine(lines, j, depth, n) ==
    LET d == depth + CountIn(lines[j], OpenOf(n)) - CountIn(lines[j], CloseOf(n))
    IN  IF d <= 0 THEN j
        ELSE IF j = Len(lines) THEN 0
        ELSE MatchingCloseLine(lines, j + 1, d, n)

\* C16: a table, pre, ul, ol or blockquote is consumed through the closing tag
\* that matches its opener, also when a construct of the same kind is nested in
\* it: the step leaves the cursor just after the line of the matching closing
\* tag, so that no line of the construct is scanned again.
C16_NestedConsumedWhole ==
    [][(/\ pc = "split" /\ i < Len(htmlLines) /\ RuleOf(Line) \in 3..7
        /\ MatchingCloseLine(htmlLines, i + 1, 0, RuleOf(Line)) # 0) =>
          i' = MatchingCloseLine(htmlLines, i + 1, 0, RuleOf(Line))
      ]_vars

\* the end of the embed that starts at the cursor: its second closing bracket
EmbedEnd == Min({k \in (statePos + 1)..Len(stateSrc) : stateSrc[k] = "]"}) + 1

\* C17: a call of the rule that reports success, silent or not, leaves the
\* cursor advanced by the length of the matched text; a silent call emits no
\* token; a call that declines emits no token and leaves the cursor alone.
C17_CursorAdvancesOnSuccess ==
    [][/\ ruleResult' = "true" => statePos' = EmbedEnd
       /\ (ruleResult' = "true" /\ silent') => stateTokens' = stateTokens
       /\ ruleResult' = "false" =>
              stateTokens' = stateTokens /\ statePos' = statePos
      ]_vars

\* a loop iteration is about to run
AtLoopHead == pc = "split" /\ i < Len(htmlLines)
\* the first line from the current one (counted from 1) that includes the
\* closing tag of the construct opened at the current line
FirstCloseLine ==
    Min({j \in (i + 1)..Len(htmlLines) :
            IncludesAny(htmlLines[j], CloseOf(RuleOf(Line)))})

\* C18 as stated: every iteration moves the cursor forward; rules 1, 2, 8, 9
\* and 10 by one line, rules 3-7 to the index just after the last line they
\* consumed, which for an unterminated construct is the number of lines.
C18_CursorJustAfterConsumed ==
    [][AtLoopHead =>
          /\ i' > i
          /\ RuleOf(Line) \in {1, 2, 8, 9, 10} => i' = i + 1
          /\ RuleOf(Line) \in 3..7 =>
                 i' = IF UnterminatedHere THEN Len(htmlLines)
                                          ELSE FirstCloseLine
      ]_vars

\* C18: every iteration moves the cursor forward, and only while it is below
\* the number of lines; rules 1, 2, 8, 9 and 10 move it by one line, rules
\* 3-7 to the index just after the line with the closing tag, and to one more
\* than the number of lines when the construct is unterminated.
C18_CursorAdvances ==
    [][AtLoopHead =>
          /\ i' > i
          /\ i' <= Len(htmlLines) + 1
          /\ RuleOf(Line) \in {1, 2, 8, 9, 10} => i' = i + 1
          /\ RuleOf(Line) \in 3..7 =>
                 i' = IF UnterminatedHere THEN Len(htmlLines) + 1
                                          ELSE FirstCloseLine
          /\ Len(sblocks') <= Len(sblocks) + 1
      ]_vars

C18_Witness ==
    /\ pass = 1 /\ pc = "split"
    /\ Len(htmlLines) = 4 /\ i = 4
    /\ RuleOf(htmlLines[1]) = 5 /\ RuleOf(htmlLines[4]) = 8
    /\ Len(sblocks) = 2

\* the interior of the paragraph under the cursor, without outer blanks
Interior == Trim(SubSeq(Line, 2, Len(Line) - 1))
\* the interior is one img tag, and nothing else, whose attributes hold a src
SoleImgWithSrc ==
    \/ /\ Len(Interior) = 1
       /\ \E s \in SrcNames :
              Interior[1] \in {ImgTag(s, a) : a \in Alts} \cup {ImgTagNoAlt(s)}
    \/ /\ Len(Interior) >= 2
       /\ \E s \in SrcNames : Interior[1] = ImgAltOpen(s)
       /\ Interior[Len(Interior)] = "\">"
\* the src and the alt text written in the img tag
SrcWritten ==
    CHOOSE s \in SrcNames :
        Interior[1] \in {ImgTag(s, a) : a \in Alts} \cup {ImgTagNoAlt(s), ImgAltOpen(s)}
AltWritten ==
    IF Len(Interior) >= 2 THEN SubSeq(Interior, 2, Len(Interior) - 1)
    ELSE IF Interior[1] = ImgTag(SrcWritten, "pic") THEN <<"pic">>
    ELSE <<"">>
ImageBlockOf(s, alt, id) ==
    <<OpenTok, "image", " {\"id\":", id,
      ",\"sizeSlug\":\"large\",\"linkDestination\":\"none\",\"align\":\"center\"}",
      ArrowTok, NL,
      "<figure class=\"wp-block-image aligncenter size-large\">",
      "<img src=\"", s, "\" alt=\"">> \o alt
        \o <<"\" class=\"wp-image-", id, "\"/>", "</figure>", NL,
             CloseTok, "image", ArrowTok>>
HasMarker(q) ==
    \E k \in 1..Len(q) :
        /\ q[k] = "[!"
        /\ \E e \in (k + 1)..Len(q) :
               /\ q[e] = "]"
               /\ \A m \in (k + 1)..(e - 1) : q[m] # "]"
               /\ ToLowerCase(SubSeq(q, k + 1, e - 1)) \in Kinds
NewBlock == sblocks'[Len(sblocks')]

\* C19: a single-line paragraph whose interior is one img tag with a src
\* becomes exactly one image block carrying the src, the alt and one numeric
\* id in both places, whether or not its text holds a callout marker; every
\* other single-line paragraph becomes exactly one block, an alert when its
\* interior holds a marker and the plain paragraph otherwise.
C19_ParagraphOneBlock ==
    [][(AtLoopHead /\ RuleOf(Line) = 8) =>
          /\ Len(sblocks') = Len(sblocks) + 1
          /\ SubSeq(sblocks', 1, Len(sblocks)) = sblocks
          /\ IF SoleImgWithSrc
             THEN /\ \E id \in {"600", "1599"} :
                         NewBlock = ImageBlockOf(SrcWritten, AltWritten, id)
                  /\ ~IsAlert(NewBlock)
             ELSE IF HasMarker(SubSeq(Line, 2, Len(Line) - 1))
             THEN IsAlert(NewBlock)
             ELSE NewBlock = <<OpenTok, "paragraph", ArrowTok, NL>> \o Line
                                \o <<NL, CloseTok, "paragraph", ArrowTok>>
      ]_vars

\* an image block was made of a paragraph whose img tag holds a marker in its
\* alt text, and an alert of the marker paragraph after it
C19_Witness ==
    /\ pass = 1 /\ pc = "split" /\ Len(sblocks) = 2
    /\ sblocks[1][2] = "image" /\ HasMarker(sblocks[1])
    /\ IsAlert(sblocks[2])

(***************************************************************************)
(* One alert per fragment.                                                 *)
(***************************************************************************)
\* the letters of the bracket pattern that opens at k
WordAt(frag, k) ==
    SubSeq(frag, k + 1, Min({e \in (k + 1)..Len(frag) : frag[e] = "]"}) - 1)
\* where the bracket patterns with an enumerated kind open
KnownMarkers(frag) ==
    {k \in 1..Len(frag) :
        /\ frag[k] = "[!"
        /\ \E e \in (k + 1)..Len(frag) : frag[e] = "]"
        /\ CategoryOf(WordAt(frag, k)) # "unrecognized"}
FirstKnown(frag) == Min(KnownMarkers(frag))
\* the marker at k as text
MarkerText(frag, k) == <<"[!">> \o WordAt(frag, k) \o <<"]">>
OnOneLine(frag, a, b) == \A m \in a..b : frag[m] # NL

\* the first token after the first marker that is not a blank or a line
\* break: where the text of the title starts
TitleStart(frag) ==
    LET e == Min({m \in (FirstKnown(frag) + 1)..Len(frag) : frag[m] = "]"})
    IN  Min({m \in (e + 1)..Len(frag) : frag[m] \notin {" ", "  ", "\n"}})

\* C20 as stated: at most one block per fragment, none when no bracket
\* pattern names an enumerated kind and otherwise exactly one alert with the
\* category of the first marker; every later marker stays in the body of that
\* alert as text.
C20_LaterMarkersInBody ==
    cpc = "done" =>
        /\ Len(alerts) <= 1
        /\ hasCalloutSyntax(fragment) <=> Len(alerts) = 1
        /\ KnownMarkers(fragment) = {} => alerts = <<>>
        /\ KnownMarkers(fragment) # {} =>
               /\ Len(alerts) = 1
               /\ IsAlert(alerts[1])
               /\ AlertTypeIn(alerts[1])
                      = <<CategoryOf(WordAt(fragment, FirstKnown(fragment)))>>
               /\ CountIn(alerts[1], {"mediaron/alerts-dlx-chakra"}) = 2
               /\ \A k \in KnownMarkers(fragment) \ {FirstKnown(fragment)} :
                      Contains(AlertBodyIn(alerts[1]), MarkerText(fragment, k))

\* C20: the extractor emits at most one block per fragment: none when no
\* bracket pattern of the fragment names an enumerated kind, and otherwise
\* exactly one alert, whose category is that of the first marker; every later
\* marker is kept in that alert as text, in its title when the marker is on
\* the line the title text is taken from and in its body otherwise, and no
\* alert is made of it.
C20_OneAlertFirstMarker ==
    cpc = "done" =>
        /\ Len(alerts) <= 1
        /\ hasCalloutSyntax(fragment) <=> Len(alerts) = 1
        /\ KnownMarkers(fragment) = {} => alerts = <<>>
        /\ KnownMarkers(fragment) # {} =>
               /\ Len(alerts) = 1
               /\ IsAlert(alerts[1])
               /\ AlertTypeIn(alerts[1])
                      = <<CategoryOf(WordAt(fragment, FirstKnown(fragment)))>>
               /\ CountIn(alerts[1], {"mediaron/alerts-dlx-chakra"}) = 2
               /\ \A k \in KnownMarkers(fragment) \ {FirstKnown(fragment)} :
                      IF OnOneLine(fragment, TitleStart(fragment), k)
                      THEN /\ Contains(AlertTitleIn(alerts[1]), MarkerText(fragment, k))
                           /\ ~Contains(AlertBodyIn(alerts[1]), MarkerText(fragment, k))
                      ELSE Contains(AlertBodyIn(alerts[1]), MarkerText(fragment, k))

\* a warning marker followed by a tip marker on the next line gave one
\* warning alert with the tip marker in its body
C20_Witness ==
    /\ cpc = "done"
    /\ Cardinality(KnownMarkers(fragment)) = 2
    /\ WordAt(fragment, FirstKnown(fragment)) = <<"W", "A", "R", "N", "I", "N", "G">>
    /\ Len(alerts) = 1
    /\ AlertTypeIn(alerts[1]) = <<"warning">>
    /\ Contains(AlertBodyIn(alerts[1]), <<"[!", "t", "i", "p", "]">>)

(***************************************************************************)
(* Properties of tryToPublish.                                             *)
(***************************************************************************)
\* C21: when a call of tryToPublish that ran alone has finished, by return or
\* by throw, no temporary image is left in the vault and
\* tempExcalidrawImages is empty.
C21_TempImagesRemoved ==
    \A a \in Attempts :
        (att[a].pc \in Finished /\ \A b \in Attempts \ {a} : att[b].pc = "idle") =>
            /\ vault = {}
            /\ tempExcalidrawImages = <<>>

\* call b is under way, has not reached publish, and holds the temporary
\* image p that it has not uploaded
NeedsImage(b, p) ==
    /\ att[b].pc \in {"export", "created", "exists", "readBinary", "uploadMedia"}
    /\ \/ \E j \in 1..Len(att[b].content) : att[b].content[j] = p
       \/ att[b].pc \in {"created", "exists"} /\ att[b].filePath = p

\* C22: a step of one call never removes from the vault a temporary image
\* that another call has created and not yet uploaded, and the list is never
\* emptied while it holds the path of a file that is still in the vault.
C22_CleanupSparesOtherCalls ==
    [][\A a \in Attempts :
          att'[a] # att[a] =>
              /\ \A p \in vault \ vault' :
                     \A b \in Attempts \ {a} : ~NeedsImage(b, p)
              /\ (tempExcalidrawImages # <<>> /\ tempExcalidrawImages' = <<>>) =>
                     \A k \in 1..Len(tempExcalidrawImages) :
                         tempExcalidrawImages[k] \notin vault'
      ]_vars

(***************************************************************************)
(* Properties of getAuth.                                                  *)
(***************************************************************************)
\* C23: when needLogin() is true, what getAuth returns is a credential that
\* validateUser accepted, the saved one or the one of the login modal; it
\* returns the null placeholder only after prompting; and saved credentials
\* that validateUser does not accept lead to the login modal.
C23_ReturnedAuthValidated ==
    [][/\ (needLogin /\ authPc' = "returned") =>
              /\ auth' \in valid
              /\ \/ auth' = [username |-> profile.username,
                             password |-> profile.password]
                 \/ prompted'
              /\ auth' = [username |-> "null", password |-> "null"] => prompted'
       /\ (authPc = "validateUser" /\ auth \notin valid) =>
              authPc' = "modal" /\ prompted'
      ]_vars

(***************************************************************************)
(* Properties of updatePostImages.                                         *)
(***************************************************************************)
\* where the embed under the loop is in the content before the step
OriginalAt == IndexOf(postContent, Img.original)
\* what the embed rule reads at that place after the step, and before it
EmbedAfter == EmbedMatch(SubSeq(postContent', OriginalAt, Len(postContent')))
EmbedBefore == EmbedMatch(Img.original)

\* C24: after a successful upload of a local ![[name|opts]] the content holds,
\* in the place of the embed, an embed of the returned URL from which the
\* embed rule reads the same width, height and align as from the original,
\* and nothing else of the content has changed; for an embed of a URL and
\* for a failed upload the content is unchanged.
C24_RewriteKeepsOptions ==
    [][(InImageLoop /\ imgIdx' = imgIdx + 1) =>
          /\ (imgPc' = "uploaded" /\ EmbedBefore.found) =>
                 /\ EmbedAfter.found
                 /\ EmbedAfter.name = <<"https://wp/">> \o EmbedBefore.name
                 /\ Classified(Options(EmbedAfter)) = Classified(Options(EmbedBefore))
                 /\ SubSeq(postContent', 1, OriginalAt - 1)
                        = SubSeq(postContent, 1, OriginalAt - 1)
                 /\ SubSeq(postContent', OriginalAt + Len(EmbedAfter.matched),
                           Len(postContent'))
                        = SubSeq(postContent, OriginalAt + Len(Img.original),
                                 Len(postContent))
          /\ imgPc' \in {"url", "failed"} => postContent' = postContent
      ]_vars

====
